---------------------------- MODULE Spec2Model ----------------------------
(***************************************************************************)
(* Model of zappaclang: the parser of parser.go, the node model of         *)
(* node.go and the PEMDAS evaluator with its variable store of exec.go.    *)
(*                                                                         *)
(* Texts (item values, node values, results) are sequences of one-         *)
(* character strings, so that indexing, concatenation and lower-casing     *)
(* are computed as the Go code computes them.  Byte positions of items     *)
(* and nodes are not modelled.                                             *)
(*                                                                         *)
(* float64 values are modelled exactly on a bounded domain: NaN, the two   *)
(* infinities, the two zeros and the dyadic rationals n / 2^e with         *)
(* |n| <= MaxMag and e <= MaxFracBits.  On that domain every operation     *)
(* below is exact in IEEE-754 arithmetic as well; an operation whose       *)
(* float64 result lies outside the domain yields the value Unmodelled and  *)
(* the line that produced it is not explored.                              *)
(***************************************************************************)
EXTENDS Integers, Sequences, FiniteSets, TLC

(***************************************************************************)
(* Bounds of the model.                                                    *)
(***************************************************************************)
MaxMag == 300
MaxFracBits == 3
MaxDigits == 6

(***************************************************************************)
(* Texts.                                                                  *)
(***************************************************************************)
UpperCase == <<"A","B","C","D","E","F","G","H","I","J","K","L","M",
               "N","O","P","Q","R","S","T","U","V","W","X","Y","Z">>
LowerCase == <<"a","b","c","d","e","f","g","h","i","j","k","l","m",
               "n","o","p","q","r","s","t","u","v","w","x","y","z">>

digits == <<"0","1","2","3","4","5","6","7","8","9">>

IndexOf(seq, c) ==
    IF \E i \in 1..Len(seq) : seq[i] = c
    THEN CHOOSE i \in 1..Len(seq) : seq[i] = c
    ELSE 0

LowerChar(c) ==
    LET i == IndexOf(UpperCase, c) IN IF i = 0 THEN c ELSE LowerCase[i]

\* strings.ToLower
ToLower(text) == [i \in 1..Len(text) |-> LowerChar(text[i])]

IsDigit(c) == IndexOf(digits, c) # 0
DigitVal(c) == IndexOf(digits, c) - 1

\* value of a hexadecimal digit or letter as strconv reads it: 0..35, or 99
LetterVal(c) ==
    IF IsDigit(c) THEN DigitVal(c)
    ELSE LET i == IndexOf(LowerCase, LowerChar(c)) IN
         IF i = 0 THEN 99 ELSE 9 + i

Tail2(text) == SubSeq(text, 3, Len(text))

(***************************************************************************)
(* Number systems (node.go).                                               *)
(***************************************************************************)
Dec == "Dec"
Hex == "Hex"
Bin == "Bin"
Oct == "Oct"

parseNumberSystem(number) ==
    IF number[1] = "b" \/ number[1] = "B" THEN Bin
    ELSE IF number[1] = "0" THEN
        IF Len(number) = 1 THEN Dec
        ELSE IF number[2] = "x" \/ number[2] = "X" THEN Hex
        ELSE IF number[2] = "." THEN Dec
        ELSE Oct
    ELSE Dec

(***************************************************************************)
(* float64 on the bounded domain.  A value is a record                     *)
(*   k = "fin": the number n / 2^e (e = 0 or n odd); nz marks -0           *)
(*   k = "inf": +Inf (n = 1) or -Inf (n = -1)                              *)
(*   k = "nan", k = "unmodelled"                                           *)
(***************************************************************************)
RECURSIVE Pow2(_)
Pow2(k) == IF k = 0 THEN 1 ELSE 2 * Pow2(k - 1)

RECURSIVE Pow5(_)
Pow5(k) == IF k = 0 THEN 1 ELSE 5 * Pow5(k - 1)

RECURSIVE Pow10(_)
Pow10(k) == IF k = 0 THEN 1 ELSE 10 * Pow10(k - 1)

AbsInt(n) == IF n < 0 THEN -n ELSE n

NaN == [k |-> "nan", n |-> 0, e |-> 0, nz |-> FALSE]
Inf(neg) == [k |-> "inf", n |-> IF neg THEN -1 ELSE 1, e |-> 0, nz |-> FALSE]
Unmodelled == [k |-> "unmodelled", n |-> 0, e |-> 0, nz |-> FALSE]
Zero(neg) == [k |-> "fin", n |-> 0, e |-> 0, nz |-> neg]

RECURSIVE Reduce(_, _)
Reduce(n, e) ==
    IF e > 0 /\ n % 2 = 0 THEN Reduce(n \div 2, e - 1) ELSE <<n, e>>

\* the float64 n / 2^e (sign of a zero result: neg)
Mk(n, e, neg) ==
    LET r == Reduce(n, e) IN
    IF r[1] = 0 THEN Zero(neg)
    ELSE IF r[2] > MaxFracBits \/ AbsInt(r[1]) > MaxMag * Pow2(r[2])
         THEN Unmodelled
    ELSE [k |-> "fin", n |-> r[1], e |-> r[2], nz |-> FALSE]

FromInt(i) == Mk(i, 0, FALSE)

IsZero(v) == v.k = "fin" /\ v.n = 0
Signbit(v) == v.n < 0 \/ (v.k = "fin" /\ v.n = 0 /\ v.nz)
IsInteger(v) == v.k = "fin" /\ v.e = 0
isOddInt(v) == IsInteger(v) /\ v.n % 2 = 1

Neg(v) ==
    IF v.k = "fin" THEN
        IF v.n = 0 THEN Zero(~v.nz) ELSE [v EXCEPT !.n = -v.n]
    ELSE IF v.k = "inf" THEN Inf(v.n > 0)
    ELSE v

MaxOf(a, b) == IF a > b THEN a ELSE b

\* l + r
FAdd(l, r) ==
    IF l.k = "unmodelled" \/ r.k = "unmodelled" THEN Unmodelled
    ELSE IF l.k = "nan" \/ r.k = "nan" THEN NaN
    ELSE IF l.k = "inf" /\ r.k = "inf" THEN IF l.n = r.n THEN l ELSE NaN
    ELSE IF l.k = "inf" THEN l
    ELSE IF r.k = "inf" THEN r
    ELSE LET E == MaxOf(l.e, r.e) IN
         Mk(l.n * Pow2(E - l.e) + r.n * Pow2(E - r.e), E,
            IsZero(l) /\ IsZero(r) /\ l.nz /\ r.nz)

\* l - r
FSub(l, r) == FAdd(l, Neg(r))

\* l * r
FMul(l, r) ==
    IF l.k = "unmodelled" \/ r.k = "unmodelled" THEN Unmodelled
    ELSE IF l.k = "nan" \/ r.k = "nan" THEN NaN
    ELSE IF l.k = "inf" \/ r.k = "inf" THEN
        IF IsZero(l) \/ IsZero(r) THEN NaN
        ELSE Inf(Signbit(l) # Signbit(r))
    ELSE Mk(l.n * r.n, l.e + r.e, Signbit(l) # Signbit(r))

\* odd part and power-of-two part of a positive integer
RECURSIVE OddPart(_)
OddPart(q) == IF q % 2 = 0 THEN OddPart(q \div 2) ELSE q

RECURSIVE TwoPart(_)
TwoPart(q) == IF q % 2 = 0 THEN 1 + TwoPart(q \div 2) ELSE 0

\* l / r
FDiv(l, r) ==
    IF l.k = "unmodelled" \/ r.k = "unmodelled" THEN Unmodelled
    ELSE IF l.k = "nan" \/ r.k = "nan" THEN NaN
    ELSE IF l.k = "inf" THEN
        IF r.k = "inf" THEN NaN ELSE Inf(Signbit(l) # Signbit(r))
    ELSE IF r.k = "inf" THEN Zero(Signbit(l) # Signbit(r))
    ELSE IF IsZero(r) THEN
        IF IsZero(l) THEN NaN ELSE Inf(Signbit(l) # Signbit(r))
    ELSE LET p  == (IF r.n < 0 THEN -l.n ELSE l.n) * Pow2(r.e)
             q  == AbsInt(r.n) * Pow2(l.e)
             qo == OddPart(q)
         IN IF p % qo # 0 THEN Unmodelled
            ELSE Mk(p \div qo, TwoPart(q), Signbit(l) # Signbit(r))

\* math.Floor
Floor(v) ==
    IF v.k # "fin" THEN v
    ELSE IF v.n = 0 THEN v
    ELSE Mk(v.n \div Pow2(v.e), 0, FALSE)

\* math.Mod: the result has the sign of l
Mod(l, r) ==
    IF l.k = "unmodelled" \/ r.k = "unmodelled" THEN Unmodelled
    ELSE IF IsZero(r) \/ l.k = "inf" \/ l.k = "nan" \/ r.k = "nan" THEN NaN
    ELSE IF r.k = "inf" THEN l
    ELSE LET E == MaxOf(l.e, r.e)
             a == AbsInt(l.n) * Pow2(E - l.e)
             b == AbsInt(r.n) * Pow2(E - r.e)
             m == a % b
         IN Mk(IF l.n < 0 THEN -m ELSE m, E, Signbit(l))

One == FromInt(1)

\* x multiplied by itself i times (i >= 1), exact or Unmodelled
RECURSIVE IntPow(_, _)
IntPow(x, i) ==
    IF i = 1 THEN x
    ELSE LET p == IntPow(x, i - 1) IN
         IF p.k = "unmodelled" THEN Unmodelled ELSE FMul(p, x)

\* math.Pow
Pow(x, y) ==
    IF x.k = "unmodelled" \/ y.k = "unmodelled" THEN Unmodelled
    ELSE IF IsZero(y) \/ x = One THEN One
    ELSE IF y = One THEN x
    ELSE IF x.k = "nan" \/ y.k = "nan" THEN NaN
    ELSE IF IsZero(x) THEN
        IF Signbit(y)
        THEN (IF Signbit(x) /\ isOddInt(y) THEN Inf(TRUE) ELSE Inf(FALSE))
        ELSE (IF Signbit(x) /\ isOddInt(y) THEN x ELSE Zero(FALSE))
    ELSE IF y.k = "inf" THEN
        IF x = FromInt(-1) THEN One
        ELSE IF (x.k = "fin" /\ AbsInt(x.n) < Pow2(x.e)) = (y.n > 0)
             THEN Zero(FALSE)
        ELSE Inf(FALSE)
    ELSE IF x.k = "inf" THEN
        IF x.n < 0 THEN
            \* Pow(1/x, -y) with 1/x = -0
            IF ~Signbit(y)
            THEN (IF isOddInt(y) THEN Inf(TRUE) ELSE Inf(FALSE))
            ELSE (IF isOddInt(y) THEN Zero(TRUE) ELSE Zero(FALSE))
        ELSE IF Signbit(y) THEN Zero(FALSE) ELSE Inf(FALSE)
    ELSE IF ~IsInteger(y) THEN
        \* y = 0.5 is Sqrt(x), any other fraction Exp(yf * Log(x))
        IF Signbit(x) THEN NaN ELSE Unmodelled
    ELSE IF AbsInt(y.n) > MaxMag THEN Unmodelled
    ELSE LET p == IntPow(x, AbsInt(y.n)) IN
         IF y.n > 0 THEN p ELSE FDiv(One, p)

(***************************************************************************)
(* strconv: formatting and parsing.                                        *)
(***************************************************************************)
RECURSIVE Digits(_)
Digits(n) ==
    IF n < 10 THEN <<digits[n + 1]>>
    ELSE Digits(n \div 10) \o <<digits[(n % 10) + 1]>>

RECURSIVE PadDigits(_, _)
PadDigits(n, width) ==
    IF width = 0 THEN <<>>
    ELSE PadDigits(n \div 10, width - 1) \o <<digits[(n % 10) + 1]>>

\* strconv.FormatFloat(v, 'f', -1, 64): the shortest text that parses back
\* to v, which for n / 2^e is its exact decimal expansion (e decimals)
FormatFloat(v) ==
    IF v.k = "nan" THEN <<"N","a","N">>
    ELSE IF v.k = "inf" THEN
        (IF v.n < 0 THEN <<"-">> ELSE <<"+">>) \o <<"I","n","f">>
    ELSE LET a == AbsInt(v.n)
             w == Pow2(v.e)
         IN (IF Signbit(v) THEN <<"-">> ELSE <<>>)
            \o Digits(a \div w)
            \o (IF v.e = 0 THEN <<>>
                ELSE <<".">> \o PadDigits((a % w) * Pow5(v.e), v.e))

HasSign(text) == Len(text) > 0 /\ (text[1] = "+" \/ text[1] = "-")
Unsigned(text) == IF HasSign(text) THEN Tail(text) ELSE text

\* the number written by a sequence of digit characters in the base
RECURSIVE DigitsValue(_, _)
DigitsValue(ds, base) ==
    IF Len(ds) = 0 THEN 0
    ELSE DigitsValue(SubSeq(ds, 1, Len(ds) - 1), base) * base
         + LetterVal(ds[Len(ds)])

NotDot(c) == c # "."
IsDot(c) == c = "."

\* strconv.ParseFloat(text, 64): [ok, v].  Accepted here: inf, infinity, nan
\* and digits with at most one decimal point, each with an optional sign
\* (nan without).  The texts the lexer and FormatFloat 'f' produce hold no
\* exponent, and a 0x mantissa without a p exponent is a syntax error.
ParseFloat(text) ==
    LET neg  == Len(text) > 0 /\ text[1] = "-"
        rest == Unsigned(text)
        low  == ToLower(rest)
        ds   == SelectSeq(rest, NotDot)
        dots == Len(SelectSeq(rest, IsDot))
        dpos == IF dots = 1 THEN IndexOf(rest, ".") ELSE Len(rest) + 1
        d    == IF dots = 1 THEN Len(rest) - dpos ELSE 0
    IN
    IF low = <<"i","n","f">> \/ low = <<"i","n","f","i","n","i","t","y">>
        THEN [ok |-> TRUE, v |-> Inf(neg)]
    ELSE IF ToLower(text) = <<"n","a","n">> THEN [ok |-> TRUE, v |-> NaN]
    ELSE IF Len(ds) = 0 \/ dots > 1 \/ \E i \in 1..Len(ds) : ~IsDigit(ds[i])
        THEN [ok |-> FALSE, v |-> NaN]
    ELSE IF Len(ds) > MaxDigits THEN [ok |-> TRUE, v |-> Unmodelled]
    ELSE LET N == DigitsValue(ds, 10) IN
         IF N % Pow5(d) # 0 THEN [ok |-> TRUE, v |-> Unmodelled]
         ELSE [ok |-> TRUE,
               v |-> Mk((IF neg THEN -1 ELSE 1) * (N \div Pow5(d)), d, neg)]

\* strconv.ParseInt(text, 0, 64) followed by float64(i64): [ok, v]
ParseInt(text) ==
    LET neg  == Len(text) > 0 /\ text[1] = "-"
        s    == Unsigned(text)
        pre  == Len(s) >= 3 /\ s[1] = "0"
        base == IF Len(s) > 0 /\ s[1] = "0" THEN
                    IF pre /\ LowerChar(s[2]) = "b" THEN 2
                    ELSE IF pre /\ LowerChar(s[2]) = "o" THEN 8
                    ELSE IF pre /\ LowerChar(s[2]) = "x" THEN 16
                    ELSE 8
                ELSE 10
        ds   == IF Len(s) > 0 /\ s[1] = "0" THEN
                    IF pre /\ LowerChar(s[2]) \in {"b", "o", "x"}
                    THEN Tail2(s) ELSE Tail(s)
                ELSE s
    IN
    IF Len(s) = 0 \/ \E i \in 1..Len(ds) : LetterVal(ds[i]) >= base
        THEN [ok |-> FALSE, v |-> NaN]
    ELSE IF Len(ds) > MaxDigits THEN [ok |-> TRUE, v |-> Unmodelled]
    ELSE LET N == DigitsValue(ds, base) IN
         IF N > MaxMag THEN [ok |-> TRUE, v |-> Unmodelled]
         ELSE [ok |-> TRUE, v |-> FromInt(IF neg THEN -N ELSE N)]

(***************************************************************************)
(* Nodes (node.go).                                                        *)
(***************************************************************************)
OperatorNodes == {"NodeAdd", "NodeSub", "NodeMult", "NodeExp", "NodeDiv",
                  "NodeFdiv", "NodeAnd", "NodeOr", "NodeXor", "NodeInv",
                  "NodeMod", "NodeLShift", "NodeRShift"}

prefixNodes == {"NodeLParen", "NodeSetOutput", "NodeAssign"}

ValueNodes == {"NodeNumber", "NodeVariable"}

operatorMap(op) ==
    CASE op = <<"+">>      -> "NodeAdd"
      [] op = <<"-">>      -> "NodeSub"
      [] op = <<"*">>      -> "NodeMult"
      [] op = <<"*","*">>  -> "NodeExp"
      [] op = <<"/">>      -> "NodeDiv"
      [] op = <<"/","/">>  -> "NodeFdiv"
      [] op = <<"&">>      -> "NodeAnd"
      [] op = <<"|">>      -> "NodeOr"
      [] op = <<"^">>      -> "NodeXor"
      [] op = <<"~">>      -> "NodeInv"
      [] op = <<"%">>      -> "NodeMod"
      [] op = <<"<","<">>  -> "NodeLShift"
      [] op = <<">",">">>  -> "NodeRShift"

numberSystemMap(output) ==
    CASE output = <<"d","e","c">> -> Dec
      [] output = <<"b","i","n">> -> Bin
      [] output = <<"h","e","x">> -> Hex
      [] output = <<"o","c","t">> -> Oct

diskOperationMap(op) ==
    CASE op = <<"s","a","v","e">> -> "NodeSave"
      [] op = <<"l","o","a","d">> -> "NodeLoad"

newNumber_KeepCase(value, system) ==
    [Type |-> "NodeNumber", Value |-> value, System |-> system]

newNumber(value, system) ==
    [Type |-> "NodeNumber", Value |-> ToLower(value), System |-> system]

newVariable(name) == [Type |-> "NodeVariable", Name |-> name]
newAssign(target) == [Type |-> "NodeAssign", Target |-> target]
newOperator(op) == [Type |-> operatorMap(op), Operator |-> op]
newSetOutput(output) ==
    [Type |-> "NodeSetOutput", Output |-> numberSystemMap(output)]
newDiskOperation(op, profile) ==
    [Type |-> diskOperationMap(op), Operation |-> op, Profile |-> profile]
newLParen == [Type |-> "NodeLParen"]
newRParen == [Type |-> "NodeRParen"]
newAbs == [Type |-> "NodeAbs"]
newEOF == [Type |-> "NodeEOF"]
newClear == [Type |-> "NodeClear"]
newParsingStopped == [Type |-> "NodeParsingStopped"]

\* the String method of each node type
String(node) ==
    CASE node.Type = "NodeNumber"   -> node.Value
      [] node.Type = "NodeVariable" -> node.Name
      [] node.Type = "NodeAssign"   -> node.Target \o <<" ", "=">>
      [] node.Type \in OperatorNodes -> node.Operator
      [] node.Type = "NodeSetOutput" ->
            (CASE node.Output = Dec -> <<"D","e","c">>
               [] node.Output = Hex -> <<"H","e","x">>
               [] node.Output = Bin -> <<"B","i","n">>
               [] node.Output = Oct -> <<"O","c","t">>)
      [] node.Type \in {"NodeSave", "NodeLoad"} ->
            node.Operation \o <<"(">> \o node.Profile \o <<")">>
      [] node.Type = "NodeLParen"   -> <<"(">>
      [] node.Type = "NodeRParen"   -> <<")">>
      [] node.Type = "NodeAbs"      -> <<"a","b","s">>
      [] node.Type = "NodeClear"    -> <<"c","l","e","a","r","(",")">>
      [] OTHER                      -> <<>>

\* NumberNode.toFloat64: [ok, v, fn]
toFloat64(nn) ==
    IF nn.System = Dec
        THEN [fn |-> "strconv.ParseFloat", arg |-> nn.Value,
              r |-> ParseFloat(nn.Value)]
    ELSE IF nn.System = Oct \/ nn.System = Hex
        THEN [fn |-> "strconv.ParseInt", arg |-> nn.Value,
              r |-> ParseInt(nn.Value)]
    ELSE [fn |-> "strconv.ParseInt", arg |-> <<"0">> \o nn.Value,
          r |-> ParseInt(<<"0">> \o nn.Value)]

(***************************************************************************)
(* Errors: the nil error, or a kind with the text it quotes.               *)
(***************************************************************************)
NoErr == [kind |-> "nil", arg |-> <<>>]
Err(kind, arg) == [kind |-> kind, arg |-> arg]

(***************************************************************************)
(* The evaluator (exec.go).  Slices are indexed from 0 as in the source:   *)
(* At(nodes, i) is nodes[i] and Slice(nodes, a, b) is nodes[a:b].          *)
(***************************************************************************)
At(nodes, i) == nodes[i + 1]
Slice(nodes, a, b) == SubSeq(nodes, a + 1, b)

emptyNumber == newNumber(<<>>, Dec)

\* the zero NumberNode a failed type assertion node.(NumberNode) yields
zeroNumberNode == [Type |-> "NodeEOF", Value |-> <<>>, System |-> Dec]

findNext_Last(nodes, types) ==
    IF \E i \in 0..(Len(nodes) - 1) : At(nodes, i).Type \in types
    THEN CHOOSE i \in 0..(Len(nodes) - 1) :
            /\ At(nodes, i).Type \in types
            /\ \A j \in (i + 1)..(Len(nodes) - 1) : At(nodes, j).Type \notin types
    ELSE -1

findNext(nodes, types) ==
    IF \E i \in 0..(Len(nodes) - 1) : At(nodes, i).Type \in types
    THEN CHOOSE i \in 0..(Len(nodes) - 1) :
            /\ At(nodes, i).Type \in types
            /\ \A j \in 0..(i - 1) : At(nodes, j).Type \notin types
    ELSE -1

\* parenthesis depth after nodes[0..idx]
RECURSIVE Depth(_, _)
Depth(nodes, idx) ==
    IF idx < 0 THEN 0
    ELSE Depth(nodes, idx - 1)
         + (IF At(nodes, idx).Type = "NodeLParen" THEN 1
            ELSE IF At(nodes, idx).Type = "NodeRParen" THEN -1 ELSE 0)

findClosing(nodes) ==
    IF \E i \in 0..(Len(nodes) - 1) : Depth(nodes, i) = 0
    THEN CHOOSE i \in 0..(Len(nodes) - 1) :
            /\ Depth(nodes, i) = 0
            /\ \A j \in 0..(i - 1) : Depth(nodes, j) # 0
    ELSE -1

replace(nodes, start, end, node) ==
    Slice(nodes, 0, start) \o <<node>> \o Slice(nodes, end + 1, Len(nodes))

readValue(Vars, node) ==
    IF node.Type = "NodeVariable" THEN
        IF node.Name \in DOMAIN Vars
        THEN [num |-> Vars[node.Name], err |-> NoErr]
        ELSE [num |-> emptyNumber, err |-> Err("unknown variable", node.Name)]
    ELSE IF node.Type = "NodeNumber" THEN [num |-> node, err |-> NoErr]
    ELSE [num |-> zeroNumberNode, err |-> NoErr]

(***************************************************************************)
(* int64(f) of a float64.  A finite value in int64 range is truncated      *)
(* toward zero; for NaN and the infinities the result depends on the       *)
(* build: amd64 gives the minimum int64, arm64 saturates (NaN gives 0).    *)
(* The result is [s, i]: s = "int" with the value i, or "min", "max" for   *)
(* the two extreme int64 values.                                           *)
(***************************************************************************)
Architectures == {"amd64", "arm64"}

ToInt64(v, arch) ==
    IF v.k = "fin" THEN
        [s |-> "int",
         i |-> IF v.n >= 0 THEN v.n \div Pow2(v.e)
               ELSE -((-v.n) \div Pow2(v.e))]
    ELSE IF arch = "amd64" THEN [s |-> "min", i |-> 0]
    ELSE IF v.k = "nan" THEN [s |-> "int", i |-> 0]
    ELSE IF v.n > 0 THEN [s |-> "max", i |-> 0]
    ELSE [s |-> "min", i |-> 0]

NegativeCount(c) == c.s = "min" \/ (c.s = "int" /\ c.i < 0)
HugeCount(c) == c.s = "max" \/ (c.s = "int" /\ c.i >= 64)

\* the largest shift count whose result is computed here: 2^MaxShift
\* exceeds every magnitude of the domain
MaxShift == 20

\* float64(l << c) for 0 <= c
ShiftLeft(l, c) ==
    IF HugeCount(c) THEN FromInt(0)
    ELSE IF l.s = "min" THEN (IF c.i = 0 THEN Unmodelled ELSE FromInt(0))
    ELSE IF l.s = "max" THEN
        IF c.i = 0 \/ c.i > MaxShift THEN Unmodelled ELSE FromInt(-Pow2(c.i))
    ELSE IF l.i = 0 THEN FromInt(0)
    ELSE IF TwoPart(AbsInt(l.i)) + c.i >= 64 THEN FromInt(0)
    ELSE IF c.i > MaxShift THEN Unmodelled
    ELSE FromInt(l.i * Pow2(c.i))

\* float64(l >> c) for 0 <= c: the arithmetic shift
ShiftRight(l, c) ==
    IF l.s = "min" THEN
        IF HugeCount(c) \/ c.i >= 63 THEN FromInt(-1)
        ELSE IF 63 - c.i > MaxShift THEN Unmodelled
        ELSE FromInt(-Pow2(63 - c.i))
    ELSE IF l.s = "max" THEN
        IF HugeCount(c) \/ c.i >= 63 THEN FromInt(0)
        ELSE IF 63 - c.i > MaxShift THEN Unmodelled
        ELSE FromInt(Pow2(63 - c.i) - 1)
    ELSE IF HugeCount(c) \/ c.i > MaxShift
        THEN FromInt(IF l.i < 0 THEN -1 ELSE 0)
    ELSE FromInt(l.i \div Pow2(c.i))

\* the arithmetic of calculate: [panic, v]
Arith(opType, l, r, arch) ==
    IF opType \in {"NodeLShift", "NodeRShift"} THEN
        IF NegativeCount(ToInt64(r, arch))
        THEN [panic |-> TRUE, v |-> NaN]
        ELSE [panic |-> FALSE,
              v |-> IF opType = "NodeLShift"
                    THEN ShiftLeft(ToInt64(l, arch), ToInt64(r, arch))
                    ELSE ShiftRight(ToInt64(l, arch), ToInt64(r, arch))]
    ELSE [panic |-> FALSE,
          v |-> CASE opType = "NodeAdd"  -> FAdd(l, r)
                  [] opType = "NodeSub"  -> FSub(l, r)
                  [] opType = "NodeMult" -> FMul(l, r)
                  [] opType = "NodeExp"  -> Pow(l, r)
                  [] opType = "NodeDiv"  -> FDiv(l, r)
                  [] opType = "NodeFdiv" -> Floor(FDiv(l, r))
                  [] opType = "NodeAnd"  -> FSub(l, r)
                  [] opType = "NodeOr"   -> FSub(l, r)
                  [] opType = "NodeXor"  -> FSub(l, r)
                  [] opType = "NodeInv"  -> FSub(l, r)
                  [] opType = "NodeMod"  -> Mod(l, r)]

(***************************************************************************)
(* Outcomes: st is "ok", "err" (an error value is returned), "panic" (a    *)
(* runtime panic unwinds the call) or "unmodelled" (a float64 outside the  *)
(* domain arose).                                                          *)
(***************************************************************************)
\* calculate once both operands are float64 values and the operator has
\* been applied: a is Arith's [panic, v]
calculateResult(a) ==
    IF a.panic THEN [st |-> "panic", num |-> emptyNumber, err |-> NoErr]
    ELSE IF a.v.k = "unmodelled"
        THEN [st |-> "unmodelled", num |-> emptyNumber, err |-> NoErr]
    ELSE [st |-> "ok", num |-> newNumber(FormatFloat(a.v), Dec), err |-> NoErr]

\* calculate from what readValue and toFloat64 gave for the two operands
calculateValues(leftNum, lf, rightNum, rf, op, arch) ==
    LET fail(e) == [st |-> "err", num |-> emptyNumber, err |-> e] IN
    IF leftNum.err # NoErr THEN fail(leftNum.err)
    ELSE IF ~lf.r.ok THEN fail(Err(lf.fn, lf.arg))
    ELSE IF rightNum.err # NoErr THEN fail(rightNum.err)
    ELSE IF ~rf.r.ok THEN fail(Err(rf.fn, rf.arg))
    ELSE IF lf.r.v.k = "unmodelled" \/ rf.r.v.k = "unmodelled"
        THEN [st |-> "unmodelled", num |-> emptyNumber, err |-> NoErr]
    ELSE IF op.Type \notin OperatorNodes
        THEN fail(Err("unknown operation", String(op)))
    ELSE calculateResult(Arith(op.Type, lf.r.v, rf.r.v, arch))

calculateOperands(leftNum, rightNum, op, arch) ==
    calculateValues(leftNum, toFloat64(leftNum.num),
                    rightNum, toFloat64(rightNum.num), op, arch)

calculate(Vars, left, op, right, arch) ==
    calculateOperands(readValue(Vars, left), readValue(Vars, right), op, arch)

\* calculateNodes after calculate returned value
calculateNodesResult(nodes, left, right, value) ==
    IF value.st = "ok"
    THEN [st |-> "ok", err |-> NoErr,
          nodes |-> replace(nodes, left, right, value.num)]
    ELSE [st |-> value.st, nodes |-> <<>>, err |-> value.err]

\* [st, nodes, err]; an index outside the slice is a runtime panic
calculateNodes(Vars, nodes, operatorPos, arch) ==
    IF operatorPos - 1 < 0 \/ operatorPos + 1 >= Len(nodes)
        THEN [st |-> "panic", nodes |-> <<>>, err |-> NoErr]
    ELSE calculateNodesResult(nodes, operatorPos - 1, operatorPos + 1,
            calculate(Vars, At(nodes, operatorPos - 1), At(nodes, operatorPos),
                      At(nodes, operatorPos + 1), arch))

MultiplyDivide == {"NodeMult", "NodeDiv", "NodeFdiv", "NodeMod", "NodeAnd",
                   "NodeOr", "NodeXor", "NodeInv", "NodeLShift", "NodeRShift"}

ErrorText == <<"E","R","R","O","R">>

\* what one reduction did: the operator reduced, its place and neighbours,
\* the node list before and after
Reduction(nodes, pos, c) ==
    [op |-> At(nodes, pos).Type, pos |-> pos, st |-> c.st,
     left  |-> IF pos >= 1 THEN At(nodes, pos - 1).Type ELSE "none",
     right |-> IF pos + 1 < Len(nodes) THEN At(nodes, pos + 1).Type ELSE "none",
     before |-> nodes, after |-> c.nodes]

(***************************************************************************)
(* pemdas: [st, output, err, trace].  pemdasLoop is the for loop entered   *)
(* with the current nodes and err; trace lists the reductions made so far  *)
(* (those of nested calls included, in the order they happen).             *)
(***************************************************************************)
RECURSIVE pemdasLoop(_, _, _, _, _)
RECURSIVE afterCalculateNodes(_, _, _, _, _, _)
RECURSIVE afterGroup(_, _, _, _, _, _)

\* the loop goes on after calculateNodes returned c for the operator at pos
afterCalculateNodes(Vars, nodes, pos, arch, trace, c) ==
    IF c.st \in {"panic", "unmodelled"}
    THEN [st |-> c.st, output |-> <<>>, err |-> NoErr,
          trace |-> Append(trace, Reduction(nodes, pos, c))]
    ELSE pemdasLoop(Vars, c.nodes, c.err, arch,
                    Append(trace, Reduction(nodes, pos, c)))

\* the loop goes on after the nested pemdas returned sub for the group
\* nodes[paren .. closing]
afterGroup(Vars, nodes, paren, closing, arch, sub) ==
    IF sub.st \in {"panic", "unmodelled"} THEN sub
    ELSE pemdasLoop(Vars,
                    replace(nodes, paren, closing, newNumber(sub.output, Dec)),
                    sub.err, arch, sub.trace)

pemdasLoop(Vars, nodes, err, arch, trace) ==
    LET paren == findNext(nodes, {"NodeLParen", "NodeExp"})
        mult  == findNext(nodes, MultiplyDivide)
        add   == findNext(nodes, {"NodeAdd", "NodeSub"})
        \* the operator the loop reduces in this round, -1 when none is left
        next  == IF paren # -1 THEN paren ELSE IF mult # -1 THEN mult ELSE add
        closing == paren + findClosing(Slice(nodes, paren, Len(nodes)))
    IN
    IF err # NoErr
        THEN [st |-> "err", output |-> <<>>, err |-> err, trace |-> trace]
    ELSE IF Len(nodes) = 1
        THEN [st |-> "ok", output |-> String(At(nodes, 0)), err |-> NoErr,
              trace |-> trace]
    ELSE IF paren # -1 /\ At(nodes, paren).Type = "NodeLParen" THEN
        IF closing < paren + 1
        \* nodes[next+1 : closing] with closing below next+1
        THEN [st |-> "panic", output |-> <<>>, err |-> NoErr, trace |-> trace]
        ELSE afterGroup(Vars, nodes, paren, closing, arch,
                pemdasLoop(Vars, Slice(nodes, paren + 1, closing), NoErr,
                           arch, trace))
    ELSE IF next # -1 THEN
        afterCalculateNodes(Vars, nodes, next, arch, trace,
                            calculateNodes(Vars, nodes, next, arch))
    ELSE IF Len(nodes) < 2
        THEN [st |-> "panic", output |-> <<>>, err |-> NoErr, trace |-> trace]
    ELSE IF At(nodes, 1).Type = "NodeEOF"
        THEN pemdasLoop(Vars, <<At(nodes, 0)>>, err, arch, trace)
    ELSE [st |-> "ok", output |-> ErrorText, err |-> err, trace |-> trace]

pemdas(Vars, nodes, arch) == pemdasLoop(Vars, nodes, NoErr, arch, <<>>)

(***************************************************************************)
(* Persistence and Exec.  disk maps each saved profile to the store it     *)
(* holds.  ioOK tells whether the file system calls of this Exec succeed.  *)
(***************************************************************************)
Text_Cleared == <<"C","l","e","a","r","e","d"," ","s","t","a","t","e">>
Text_Saved == <<"S","a","v","e","d"," ">>
Text_Loaded == <<"L","o","a","d","e","d"," ">>
Text_IOError == <<"i","/","o"," ","e","r","r","o","r">>

EmptyStore == [x \in {} |-> emptyNumber]

Put(Vars, name, node) ==
    [x \in (DOMAIN Vars) \cup {name} |-> IF x = name THEN node ELSE Vars[x]]

\* yaml.Unmarshal into the existing map: the profile's entries are set,
\* the other entries stay
Merge(Vars, loaded) ==
    [x \in (DOMAIN Vars) \cup (DOMAIN loaded) |->
        IF x \in DOMAIN loaded THEN loaded[x] ELSE Vars[x]]

save_CallbackAlways(Vars, disk, profile, ioOK) ==
    IF ~ioOK THEN [msg |-> Text_IOError, disk |-> disk, onSave |-> 1]
    ELSE [msg |-> Text_Saved \o profile, disk |-> Put(disk, profile, Vars),
          onSave |-> 1]

\* ZappacState.save: [msg, disk, onSave]
save(Vars, disk, profile, ioOK) ==
    IF ~ioOK THEN [msg |-> Text_IOError, disk |-> disk, onSave |-> 0]
    ELSE [msg |-> Text_Saved \o profile, disk |-> Put(disk, profile, Vars),
          onSave |-> 1]

\* ZappacState.load: [msg, Vars]
load(Vars, disk, profile, ioOK) ==
    IF ~ioOK \/ profile \notin DOMAIN disk
        THEN [msg |-> Text_IOError, Vars |-> Vars]
    ELSE [msg |-> Text_Loaded \o profile, Vars |-> Merge(Vars, disk[profile])]

\* ZappacState.clear
clear == EmptyStore

\* targetVariable after the leading Assign node is read ("" when there is
\* none or updateVariables is off)
Target_IgnoreFlag(nodes, updateVariables) ==
    IF At(nodes, 0).Type = "NodeAssign" THEN At(nodes, 0).Target ELSE <<>>

Target(nodes, updateVariables) ==
    IF At(nodes, 0).Type = "NodeAssign" /\ updateVariables
    THEN At(nodes, 0).Target ELSE <<>>

\* the store when Exec returns: the assignment is committed after pemdas
Commit_EvenOnError(Vars, targetVariable, result, err) ==
    IF targetVariable # <<>>
    THEN Put(Vars, targetVariable,
             newNumber(result, IF Len(result) = 0 THEN Dec
                               ELSE parseNumberSystem(result)))
    ELSE Vars

Commit(Vars, targetVariable, result, err) ==
    IF err = NoErr /\ targetVariable # <<>>
    THEN Put(Vars, targetVariable, newNumber(result, parseNumberSystem(result)))
    ELSE Vars

\* what Exec returns: [st, result, err, Vars, disk, onSave, trace]
Return(st, result, err, V, D, n, t) ==
    [st |-> st, result |-> result, err |-> err, Vars |-> V, disk |-> D,
     onSave |-> n, trace |-> t]

\* Exec after pemdas returned p
ExecResult(Vars, disk, targetVariable, p) ==
    IF p.st \in {"panic", "unmodelled"}
        THEN Return(p.st, <<>>, NoErr, Vars, disk, 0, p.trace)
    ELSE IF p.err = NoErr /\ targetVariable # <<>> /\ Len(p.output) = 0
        \* parseNumberSystem indexes result[0]
        THEN Return("panic", <<>>, NoErr, Vars, disk, 0, p.trace)
    ELSE Return(p.st, p.output, p.err,
                Commit(Vars, targetVariable, p.output, p.err),
                disk, 0, p.trace)

\* Exec of save(name) and load(name), after save and load returned
ExecSaved(Vars, s) == Return("ok", s.msg, NoErr, Vars, s.disk, s.onSave, <<>>)
ExecLoaded(disk, l) == Return("ok", l.msg, NoErr, l.Vars, disk, 0, <<>>)

\* ZappacState.Exec
Exec(Vars, disk, nodes, updateVariables, arch, ioOK) ==
    IF Len(nodes) = 0 THEN Return("ok", <<>>, NoErr, Vars, disk, 0, <<>>)
    ELSE IF At(nodes, 0).Type = "NodeClear"
        THEN Return("ok", Text_Cleared, NoErr, clear, disk, 0, <<>>)
    ELSE IF At(nodes, 0).Type = "NodeSave"
        THEN ExecSaved(Vars, save(Vars, disk, At(nodes, 0).Profile, ioOK))
    ELSE IF At(nodes, 0).Type = "NodeLoad"
        THEN ExecLoaded(disk, load(Vars, disk, At(nodes, 0).Profile, ioOK))
    ELSE ExecResult(Vars, disk, Target(nodes, updateVariables),
            pemdas(Vars,
                   IF At(nodes, 0).Type \in {"NodeSetOutput", "NodeAssign"}
                   THEN Tail(nodes) ELSE nodes,
                   arch))

(***************************************************************************)
(* The lexer (lex.go, kept in src/exec_test.go).  The lexer state l is     *)
(* [input, pos, start, atEOF, out]: the text, the scanning position and    *)
(* the start of the pending item (both counted from 0), the flag next()    *)
(* sets at the end of the text, and the items sent so far.  A lexer item   *)
(* is [typ, pos, val].  The texts of the model are ASCII, so a rune is     *)
(* one character wide.                                                     *)
(***************************************************************************)
Chars(seq) == {seq[i] : i \in 1..Len(seq)}

eof == "eof"

whitespaceChars == {" ", "\t", "\r", "\n"}
letters == Chars(LowerCase) \cup Chars(UpperCase)
hexadecimal == Chars(digits) \cup {"a","b","c","d","e","f","A","B","C","D","E","F"}
binary == {"0", "1"}

newLexer(input) ==
    [input |-> input, pos |-> 0, start |-> 0, atEOF |-> FALSE, out |-> <<>>]

\* lexer.next: [l, r]
next(l) ==
    IF l.pos >= Len(l.input)
    THEN [l |-> [l EXCEPT !.atEOF = TRUE], r |-> eof]
    ELSE [l |-> [l EXCEPT !.pos = @ + 1], r |-> l.input[l.pos + 1]]

\* lexer.backup
backup(l) == IF ~l.atEOF /\ l.pos > 0 THEN [l EXCEPT !.pos = @ - 1] ELSE l

\* lexer.accept after next returned n: [l, ok]
accepted(n, valid) ==
    IF n.r \in valid THEN [l |-> n.l, ok |-> TRUE]
    ELSE [l |-> backup(n.l), ok |-> FALSE]

accept(l, valid) == accepted(next(l), valid)

\* lexer.acceptRun
RECURSIVE acceptRun(_, _)
acceptedRun(n, valid) ==
    IF n.r \in valid THEN acceptRun(n.l, valid) ELSE backup(n.l)

acceptRun(l, valid) == acceptedRun(next(l), valid)

\* lexer.thisItem: the item
thisItem(l, t) ==
    [typ |-> t, pos |-> l.start, val |-> SubSeq(l.input, l.start + 1, l.pos)]

\* lexer.emitItem: the send on the channel
emitItem(l, i) == [l EXCEPT !.out = Append(@, i)]

\* lexer.emit
emit(l, t) == emitItem([l EXCEPT !.start = l.pos], thisItem(l, t))

\* lexer.ignore
ignore(l) == [l EXCEPT !.start = l.pos]

\* lexer.errorf up to its send: the error item goes to the channel
errorf(l, text) ==
    emitItem(l, [typ |-> "itemError", pos |-> l.start, val |-> text])

\* lexer.errorf after its send: the lexer is reset and the state is nil
errorfEnd(l) == [l EXCEPT !.start = 0, !.pos = 0, !.input = <<>>]

Unexpected(r) == <<"U","n","e","x","p","e","c","t","e","d"," ">> \o <<r>>

\* the table of lexBase, in its order
lexMap ==
    << [key |-> <<"$">>,     stateFn |-> "lexVariable"],
       [key |-> <<"(">>,     stateFn |-> "lexLParen"],
       [key |-> <<")">>,     stateFn |-> "lexRParen"],
       [key |-> <<"=">>,     stateFn |-> "lexEquals"],
       [key |-> <<"+">>,     stateFn |-> "lexAdd"],
       [key |-> <<"-">>,     stateFn |-> "lexSub"],
       [key |-> <<"*","*">>, stateFn |-> "lexExp"],
       [key |-> <<"*">>,     stateFn |-> "lexMult"],
       [key |-> <<"/","/">>, stateFn |-> "lexFdiv"],
       [key |-> <<"/">>,     stateFn |-> "lexDiv"],
       [key |-> <<"&">>,     stateFn |-> "lexAnd"],
       [key |-> <<"|">>,     stateFn |-> "lexOr"],
       [key |-> <<"^">>,     stateFn |-> "lexXor"],
       [key |-> <<"~">>,     stateFn |-> "lexInv"],
       [key |-> <<"%">>,     stateFn |-> "lexMod"],
       [key |-> <<"<","<">>, stateFn |-> "lexLShift"],
       [key |-> <<">",">">>, stateFn |-> "lexRShift"] >>

\* strings.HasPrefix(l.input[l.pos:], key)
HasPrefix(l, key) ==
    /\ l.pos + Len(key) <= Len(l.input)
    /\ SubSeq(l.input, l.pos + 1, l.pos + Len(key)) = key

\* the state functions of the fixed tokens, lexLParen to lexRShift: the
\* characters each accepts and the item it emits
tokenFns ==
    [lexLParen |-> [key |-> <<"(">>,     typ |-> "itemLParen"],
     lexRParen |-> [key |-> <<")">>,     typ |-> "itemRParen"],
     lexEquals |-> [key |-> <<"=">>,     typ |-> "itemEquals"],
     lexAdd    |-> [key |-> <<"+">>,     typ |-> "itemAdd"],
     lexSub    |-> [key |-> <<"-">>,     typ |-> "itemSub"],
     lexExp    |-> [key |-> <<"*","*">>, typ |-> "itemExp"],
     lexMult   |-> [key |-> <<"*">>,     typ |-> "itemMult"],
     lexFdiv   |-> [key |-> <<"/","/">>, typ |-> "itemFdiv"],
     lexDiv    |-> [key |-> <<"/">>,     typ |-> "itemDiv"],
     lexAnd    |-> [key |-> <<"&">>,     typ |-> "itemAnd"],
     lexOr     |-> [key |-> <<"|">>,     typ |-> "itemOr"],
     lexXor    |-> [key |-> <<"^">>,     typ |-> "itemXor"],
     lexInv    |-> [key |-> <<"~">>,     typ |-> "itemInv"],
     lexMod    |-> [key |-> <<"%">>,     typ |-> "itemMod"],
     lexLShift |-> [key |-> <<"<","<">>, typ |-> "itemLShift"],
     lexRShift |-> [key |-> <<">",">">>, typ |-> "itemRShift"]]

\* The lexer goes on in steps.  A step runs the lexer up to the next send
\* on the channel (emitItem) or, when nothing is sent, up to the return of
\* the state function; it gives [l, state], where state tells where
\* lexer.run goes on after it: the state function that is called next,
\* "lexBaseMap" (inside lexBase, behind the send of the whitespace item),
\* "errorfEnd" (inside errorf, behind its send) or "nil", which ends the
\* scan.  A function that sends as its last statement goes on with the
\* state function it returns.
To(l, state) == [l |-> l, state |-> state]

\* one accept for each character of the key
RECURSIVE acceptEach(_, _)
acceptEach(l, key) ==
    IF key = <<>> THEN l
    ELSE acceptEach(accept(l, {Head(key)}).l, Tail(key))

\* lexLParen ... lexRShift
lexToken(l, fn) == To(emit(acceptEach(l, fn.key), fn.typ), "lexBase")

\* lexVariable
lexVariableEmit(l) ==
    To(IF l.pos > l.start THEN emit(l, "itemVariable") ELSE l, "lexBase")

lexVariable(l) ==
    lexVariableEmit(acceptRun(accept(l, {"$"}).l, letters \cup {"_"}))

\* lexText: the item type of the text
textType(val) ==
    CASE val = <<"s","a","v","e">> -> "itemSave"
      [] val = <<"l","o","a","d">> -> "itemLoad"
      [] val = <<"a","b","s">>     -> "itemAbs"
      [] val = <<"d","e","c">>     -> "itemDec"
      [] val = <<"h","e","x">>     -> "itemHex"
      [] val = <<"b","i","n">>     -> "itemBin"
      [] val = <<"o","c","t">>     -> "itemOct"
      [] OTHER                     -> "itemText"

lexTextEmit(l) ==
    To(emitItem([l EXCEPT !.start = l.pos],
                [thisItem(l, "itemText")
                    EXCEPT !.typ = textType(thisItem(l, "itemText").val)]),
       "lexBase")

lexText(l) == lexTextEmit(acceptRun(accept(l, letters).l, letters \cup {"_"}))

\* lexNumber: the loop of the decimal literal
RECURSIVE lexDecimal(_, _)
lexDecimalDigit(d, decimal) ==
    IF d.ok THEN lexDecimal(d.l, decimal) ELSE d.l

lexDecimalDot(dot, decimal) ==
    IF dot.ok THEN lexDecimal(dot.l, TRUE)
    ELSE lexDecimalDigit(accept(dot.l, Chars(digits)), decimal)

lexDecimal(l, decimal) ==
    IF ~decimal THEN lexDecimalDot(accept(l, {"."}), decimal)
    ELSE lexDecimalDigit(accept(l, Chars(digits)), decimal)

\* lexNumber: the third branch, after accept(digits) returned d
lexNumberDigits(d) ==
    To(IF d.ok THEN emit(lexDecimal(d.l, FALSE), "itemNumber") ELSE d.l,
       "lexBase")

\* lexNumber: the second branch, after accept("xX") returned x
lexNumberHex(x) ==
    IF x.ok THEN To(emit(acceptRun(x.l, hexadecimal), "itemNumber"), "lexBase")
    ELSE lexNumberDigits(accept(x.l, Chars(digits)))

\* lexNumber: after accept("0") returned z
lexNumberZero(z) ==
    IF z.ok THEN lexNumberHex(accept(z.l, {"x", "X"}))
    ELSE lexNumberDigits(accept(z.l, Chars(digits)))

\* lexNumber: after accept("b") returned b
lexNumberBinary(b) ==
    IF b.ok THEN To(emit(acceptRun(b.l, binary), "itemNumber"), "lexBase")
    ELSE lexNumberZero(accept(b.l, {"0"}))

lexNumber(l) == lexNumberBinary(accept(l, {"b"}))

\* lexBase: the end of the text, or a character no rule takes
lexBaseError_Continue(n) == To(errorf(n.l, Unexpected(n.r)), "lexBase")

\* lexBase: return l.errorf("Unexpected %c", n), up to the send of errorf
lexBaseError(n) == To(errorf(n.l, Unexpected(n.r)), "errorfEnd")

lexBaseEnd(l) ==
    IF l.pos = Len(l.input) THEN To(emit(l, "itemEOF"), "nil")
    ELSE lexBaseError(next(l))

\* lexBase: after accept(letters) returned t
lexBaseLetters(t) ==
    IF t.ok THEN To(backup(t.l), "lexText") ELSE lexBaseEnd(t.l)

\* lexBase: after accept(digits) returned d
lexBaseDigits(d) ==
    IF d.ok THEN To(backup(d.l), "lexNumber")
    ELSE lexBaseLetters(accept(d.l, letters))

\* lexBase: after accept("b") returned b and, if it did, accept(binary)
lexBaseBinaryDigit(d) ==
    IF d.ok THEN To(backup(backup(d.l)), "lexNumber")
    ELSE lexBaseDigits(accept(d.l, Chars(digits)))

lexBaseBinary(b) ==
    IF b.ok THEN lexBaseBinaryDigit(accept(b.l, binary))
    ELSE lexBaseDigits(accept(b.l, Chars(digits)))

\* lexBase: the table, the first key that matches
lexMapFirst(l) ==
    CHOOSE i \in 1..Len(lexMap) :
        /\ HasPrefix(l, lexMap[i].key)
        /\ \A j \in 1..(i - 1) : ~HasPrefix(l, lexMap[j].key)

lexBaseMap(l) ==
    IF \E i \in 1..Len(lexMap) : HasPrefix(l, lexMap[i].key)
    THEN To(l, lexMap[lexMapFirst(l)].stateFn)
    ELSE lexBaseBinary(accept(l, {"b"}))

\* lexBase: leading whitespace is one item; the lexer waits in its send
\* before it looks at the table
lexBaseSpace(l) ==
    IF l.pos > l.start
    THEN To(emitItem(ignore(l),
                     [typ |-> "itemSpace", pos |-> l.pos, val |-> <<" ">>]),
            "lexBaseMap")
    ELSE lexBaseMap(l)

lexBase(l) == lexBaseSpace(acceptRun(l, whitespaceChars))

\* the call state(l) of lexer.run, in steps
state(l, fn) ==
    CASE fn = "lexBase"     -> lexBase(l)
      [] fn = "lexBaseMap"  -> lexBaseMap(l)
      [] fn = "errorfEnd"   -> To(errorfEnd(l), "nil")
      [] fn = "lexVariable" -> lexVariable(l)
      [] fn = "lexNumber"   -> lexNumber(l)
      [] fn = "lexText"     -> lexText(l)
      [] OTHER              -> lexToken(l, tokenFns[fn])

\* lexer.run up to close(l.items), every item being taken: the items sent
RECURSIVE run(_)
run(s) == IF s.state = "nil" THEN s.l.out ELSE run(state(s.l, s.state))

\* lex, and every item of the channel
Lex(input) == run(To(newLexer(input), "lexBase"))

(***************************************************************************)
(* The parser (parser.go).  An item is [typ, val].  The parser state p is  *)
(* [items, pos, parenthesis, chan]: the items buffered so far, the number  *)
(* of them consumed, the open parentheses, and what the lexer has still    *)
(* to deliver on its channel (the channel is closed after the last one).   *)
(***************************************************************************)
operatorItems == {"itemAdd", "itemSub", "itemMult", "itemExp", "itemDiv",
                  "itemFdiv", "itemAnd", "itemOr", "itemXor", "itemInv",
                  "itemMod", "itemLShift", "itemRShift"}

NilItem == [typ |-> "nil", val |-> <<>>]

ErrorUnexpectedEOF == Err("unexpected end of input", <<>>)
ErrorInternal == Err("internal error while parsing", <<>>)

\* parser.nextItem: [p, itm, err]
RECURSIVE nextItem(_)
nextItem(p) ==
    IF p.pos < Len(p.items)
        THEN [p |-> [p EXCEPT !.pos = @ + 1], itm |-> p.items[p.pos + 1],
              err |-> NoErr]
    ELSE IF Len(p.chan) = 0
        THEN [p |-> p, itm |-> NilItem, err |-> ErrorInternal]
    ELSE LET item == Head(p.chan)
             q == [p EXCEPT !.chan = Tail(@)]
         IN IF item.typ = "itemSpace" THEN nextItem(q)
            ELSE IF item.typ = "itemEOF" THEN
                IF q.parenthesis > 0
                THEN [p |-> q, itm |-> NilItem,
                      err |-> Err("unexpected end of input, there are unclosed parenthesis", <<>>)]
                ELSE [p |-> q, itm |-> NilItem, err |-> NoErr]
            ELSE IF item.typ = "itemError"
                THEN [p |-> q, itm |-> NilItem, err |-> Err("lexer", item.val)]
            ELSE [p |-> [q EXCEPT !.items = Append(@, item), !.pos = @ + 1],
                  itm |-> item, err |-> NoErr]

\* parser.peek: the position is put back, the item stays buffered
peek(p) ==
    LET r == nextItem(p) IN [r EXCEPT !.p.pos = p.pos]

IsNodeType_Always(node, types) == TRUE

IsNodeType(node, types) == node.Type \in types

Last(nodes) == nodes[Len(nodes)]

\* the drain loop of clear, save and load: reads until EOF or an error
RECURSIVE drain(_)
drain(p) ==
    LET r == nextItem(p) IN
    IF r.err # NoErr \/ r.itm = NilItem THEN r ELSE drain(r.p)

\* readTokens at a "-": whether the item after it is looked at
needPeek(pos, nodes) ==
    pos = 1 \/ ~IsNodeType(Last(nodes), ValueNodes)

isNegativeNumber_Never(pos, nodes, peeked) == FALSE

\* readTokens at a "-" that looked at the item after it (peeked, NilItem
\* at the end of the input): whether the two make a negative number
isNegativeNumber(pos, nodes, peeked) ==
    \/ pos = 1
    \/ /\ peeked # NilItem
       /\ peeked.typ = "itemNumber"
       /\ IsNodeType(Last(nodes), OperatorNodes \cup prefixNodes)

\* parser.readTokens from the state (p, nodes): [st, p, nodes, err]
RECURSIVE readTokens(_, _)
readTokens(p0, nodes) ==
    LET n    == nextItem(p0)
        p    == n.p
        itm  == n.itm
        stop(ns, e) == [st |-> "ok", p |-> p, nodes |-> ns, err |-> e]
        panic == [st |-> "panic", p |-> p, nodes |-> nodes, err |-> NoErr]
        unexpected(kind) == stop(nodes, Err(kind, itm.val))
    IN
    IF n.err # NoErr THEN stop(nodes, n.err)
    ELSE IF itm = NilItem THEN
        \* EOF
        stop(Append(nodes, newEOF),
             IF p.pos >= 1 /\ Len(nodes) > 0
                /\ ~IsNodeType(Last(nodes), ValueNodes \cup {"NodeRParen"})
             THEN ErrorUnexpectedEOF ELSE NoErr)
    ELSE IF itm.typ = "itemEquals" THEN
        IF p.pos # 2 THEN unexpected("equals can only follow a variable name")
        ELSE IF Len(nodes) = 0 THEN panic
        ELSE IF nodes[1].Type # "NodeVariable"
            THEN unexpected("equals can only follow a variable name")
        ELSE readTokens(p, [nodes EXCEPT ![1] = newAssign(nodes[1].Name)])
    ELSE IF p.pos # 1 /\ Len(nodes) = 0
            /\ itm.typ \in operatorItems \cup {"itemVariable", "itemNumber", "itemAbs"}
        \* nodes[len(nodes)-1] of an empty slice
        THEN panic
    ELSE IF itm.typ = "itemVariable" THEN
        IF p.pos # 1
           /\ ~IsNodeType(Last(nodes),
                  OperatorNodes \cup {"NodeLParen", "NodeAssign"}
                  \cup (IF Len(nodes) = 1 THEN prefixNodes ELSE {}))
        THEN unexpected("unexpected following")
        ELSE readTokens(p, Append(nodes, newVariable(itm.val)))
    ELSE IF itm.typ \in {"itemDec", "itemBin", "itemOct", "itemHex"} THEN
        IF p.pos # 1
        THEN unexpected("setting output type must be the first thing you do")
        ELSE readTokens(p, Append(nodes, newSetOutput(itm.val)))
    ELSE IF itm.typ \in operatorItems THEN
        LET peeks == itm.typ = "itemSub" /\ needPeek(p.pos, nodes)
            pk == IF peeks THEN peek(p)
                  ELSE [p |-> p, itm |-> NilItem, err |-> NoErr]
        IN
        IF pk.err # NoErr
            THEN [st |-> "ok", p |-> pk.p, nodes |-> nodes, err |-> pk.err]
        ELSE IF pk.itm # NilItem /\ peeks
                /\ isNegativeNumber(p.pos, nodes, pk.itm) THEN
            LET value == <<"-">> \o pk.itm.val IN
            IF p.pos # 1
               /\ ~IsNodeType(Last(nodes), OperatorNodes \cup prefixNodes)
            THEN [st |-> "ok", p |-> pk.p, nodes |-> nodes,
                  err |-> Err("looks like a negative number that doesn't make sense here", value)]
            ELSE readTokens([pk.p EXCEPT !.pos = @ + 1],
                            Append(nodes, newNumber(value,
                                       parseNumberSystem(pk.itm.val))))
        ELSE IF p.pos = 1
            THEN [st |-> "ok", p |-> pk.p, nodes |-> nodes,
                  err |-> Err("unexpected", itm.val)]
        ELSE IF ~IsNodeType(Last(nodes), ValueNodes \cup {"NodeRParen"})
            THEN [st |-> "ok", p |-> pk.p, nodes |-> nodes,
                  err |-> Err("operators should follow numbers, variables, or closing parenthesis", itm.val)]
        ELSE readTokens(pk.p, Append(nodes, newOperator(itm.val)))
    ELSE IF itm.typ = "itemNumber" THEN
        IF p.pos # 1 /\ ~IsNodeType(Last(nodes), OperatorNodes \cup prefixNodes)
        THEN unexpected("looks like a negative number that doesn't make sense here")
        ELSE readTokens(p, Append(nodes,
                               newNumber(itm.val, parseNumberSystem(itm.val))))
    ELSE IF itm.typ = "itemClear" THEN
        LET invalidErr == Err("when used the input should be only: clear()", itm.val)
            d == drain(p)
        IN IF p.pos # 1 THEN stop(nodes, invalidErr)
           ELSE IF d.err # NoErr
               THEN [st |-> "ok", p |-> d.p, nodes |-> nodes, err |-> d.err]
           ELSE IF Len(d.p.items) # 3
                   \/ d.p.items[2].typ # "itemLParen"
                   \/ d.p.items[3].typ # "itemRParen"
               THEN [st |-> "ok", p |-> d.p, nodes |-> nodes, err |-> invalidErr]
           ELSE [st |-> "ok", p |-> d.p, err |-> NoErr,
                 nodes |-> nodes \o <<newClear, newEOF>>]
    ELSE IF itm.typ \in {"itemSave", "itemLoad"} THEN
        LET invalidErr == Err("when used the input should be only: (name)", itm.val)
            d == drain(p)
        IN IF p.pos # 1 THEN stop(nodes, invalidErr)
           ELSE IF d.err # NoErr
               THEN [st |-> "ok", p |-> d.p, nodes |-> nodes, err |-> d.err]
           ELSE IF Len(d.p.items) # 4
                   \/ d.p.items[2].typ # "itemLParen"
                   \/ d.p.items[3].typ # "itemText"
                   \/ d.p.items[4].typ # "itemRParen"
               THEN [st |-> "ok", p |-> d.p, nodes |-> nodes, err |-> invalidErr]
           ELSE [st |-> "ok", p |-> d.p, err |-> NoErr,
                 nodes |-> nodes \o <<newDiskOperation(itm.val, d.p.items[3].val),
                                      newEOF>>]
    ELSE IF itm.typ = "itemLParen" THEN
        IF p.pos # 1 /\ Len(nodes) > 0
           /\ ~IsNodeType(Last(nodes),
                  OperatorNodes \cup prefixNodes \cup {"NodeAbs"})
        THEN unexpected("unexpected (")
        ELSE readTokens([p EXCEPT !.parenthesis = @ + 1],
                        Append(nodes, newLParen))
    ELSE IF itm.typ = "itemRParen" THEN
        IF p.parenthesis = 0 THEN unexpected("no parenthesis open")
        ELSE IF Len(nodes) = 0 THEN panic
        ELSE IF ~IsNodeType(Last(nodes), ValueNodes \cup {"NodeRParen"})
            THEN unexpected("unexpected ), should be following numbers, variables, or other )s")
        ELSE readTokens([p EXCEPT !.parenthesis = @ - 1],
                        Append(nodes, newRParen))
    ELSE IF itm.typ = "itemAbs" THEN
        IF p.pos # 1 /\ ~IsNodeType(Last(nodes), OperatorNodes \cup prefixNodes)
        THEN unexpected("unexpected abs()")
        ELSE readTokens(p, Append(nodes, newAbs))
    ELSE stop(Append(nodes, newEOF), Err("unexpected", itm.val))

parseResult_NoMarker(r) ==
    [st |-> r.st, nodes |-> r.nodes, err |-> r.err]

\* parser.parse after readTokens returned r
parseResult(r) ==
    IF r.st = "panic" THEN [st |-> "panic", nodes |-> <<>>, err |-> NoErr]
    ELSE IF r.err # NoErr \/ Len(r.nodes) = 0
            \/ Last(r.nodes).Type # "NodeEOF"
        THEN [st |-> "ok", nodes |-> Append(r.nodes, newParsingStopped),
              err |-> r.err]
    ELSE [st |-> "ok", nodes |-> r.nodes, err |-> r.err]

\* parser.parse and Parse: [st, nodes, err]
Parse(stream) ==
    parseResult(readTokens([items |-> <<>>, pos |-> 0, parenthesis |-> 0,
                            chan |-> stream], <<>>))

(***************************************************************************)
(* The input lines of the model.  A line is written as its words; the      *)
(* text of the line is Text(ws), and what Parse reads from the channel is  *)
(* what the lexer sends for that text, Channel(ws).  Most words are        *)
(* written as the item the lexer sends for them; Word(val) is a piece of   *)
(* text for which it sends no item of its own.                             *)
(***************************************************************************)
Item(typ, val) == [typ |-> typ, val |-> val]
Word(val) == [typ |-> "word", val |-> val]

\* the items as the parser reads them
ToItems(its) == [i \in 1..Len(its) |-> Item(its[i].typ, its[i].val)]

Num(val) == Item("itemNumber", val)
Var(val) == Item("itemVariable", val)

I_Add    == Item("itemAdd", <<"+">>)
I_Sub    == Item("itemSub", <<"-">>)
I_Mult   == Item("itemMult", <<"*">>)
I_Exp    == Item("itemExp", <<"*","*">>)
I_Div    == Item("itemDiv", <<"/">>)
I_Fdiv   == Item("itemFdiv", <<"/","/">>)
I_And    == Item("itemAnd", <<"&">>)
I_Or     == Item("itemOr", <<"|">>)
I_Xor    == Item("itemXor", <<"^">>)
I_Inv    == Item("itemInv", <<"~">>)
I_Mod    == Item("itemMod", <<"%">>)
I_LShift == Item("itemLShift", <<"<","<">>)
I_RShift == Item("itemRShift", <<">",">">>)
I_LParen == Item("itemLParen", <<"(">>)
I_RParen == Item("itemRParen", <<")">>)
I_Equals == Item("itemEquals", <<"=">>)
I_Abs    == Item("itemAbs", <<"a","b","s">>)
I_Dec    == Item("itemDec", <<"d","e","c">>)
I_Hex    == Item("itemHex", <<"h","e","x">>)
I_Bin    == Item("itemBin", <<"b","i","n">>)
I_Oct    == Item("itemOct", <<"o","c","t">>)
I_Clear  == Item("itemText", <<"c","l","e","a","r">>)
I_Text   == Item("itemText", <<"f","o","o">>)
I_Save   == Item("itemSave", <<"s","a","v","e">>)
I_Load   == Item("itemLoad", <<"l","o","a","d">>)
I_Space  == Item("itemSpace", <<" ">>)
I_Error  == Item("itemError", <<"U","n","e","x","p","e","c","t","e","d"," ","#">>)

W_Zero == Word(<<"0">>)
N_1    == Num(<<"1">>)
N_2    == Num(<<"2">>)
N_3    == Num(<<"3">>)
W_Half == Word(<<"0",".","5">>)
N_HexA == Num(<<"0","x","A">>)
N_HexU == Num(<<"0","X","f","F">>)
N_Oct  == Num(<<"0","1","0">>)
N_Bin  == Num(<<"b","1","0">>)
N_Bad  == Num(<<"0","8">>)
N_Long == Num(<<"1","2","4","3","8","7","1","6","3","5","8","9","7","6">>)
W_Frac == Word(<<"0",".","1","2","4","3","8","7","1","6","3","5">>)
W_Hash == Word(<<"#">>)
W_Less == Word(<<"<">>)
W_Space == Word(<<" ">>)
N_8    == Num(<<"8">>)
N_10   == Num(<<"1","0">>)
N_255  == Num(<<"2","5","5">>)
N_Hexff == Num(<<"0","x","f","f">>)
N_0755 == Num(<<"0","7","5","5">>)
V_a    == Var(<<"$","a">>)
V_b    == Var(<<"$","b">>)

Operators == {I_Add, I_Sub, I_Mult, I_Exp, I_Div, I_Fdiv, I_And, I_Or, I_Xor,
              I_Inv, I_Mod, I_LShift, I_RShift}
Radixes == {I_Dec, I_Hex, I_Bin, I_Oct}

Literals == {W_Zero, N_1, N_2, N_3, W_Half, N_HexA, N_HexU, N_Oct, N_Bin, N_Bad,
             N_Long, W_Frac, N_10, N_Hexff, N_0755}
SmallLiterals == {W_Zero, N_1, N_2, W_Half}
MixedOperands == {N_HexA, N_Oct, N_Bin, N_Bad, V_a, V_b}

\* an operand, or the two items of its negative
Signed(S) == {<<x>> : x \in S} \cup {<<I_Sub, x>> : x \in S}

\* expressions: one operand, two operands, three operands and more,
\* parentheses, abs
Expr1 == Signed(Literals \cup {V_a, V_b})
Expr2 ==
    {<<x, op>> \o y : x \in SmallLiterals, op \in Operators,
                      y \in Signed(SmallLiterals)}
    \cup {<<x, op>> \o y : x \in MixedOperands, op \in {I_Add, I_Mult, I_LShift},
                           y \in Signed(MixedOperands \cup {N_1})}
    \cup {<<N_1, op, y>> : op \in {I_Add, I_Mult, I_LShift}, y \in MixedOperands}
    \cup {<<I_Sub, x, op>> \o y : x \in {N_1, N_3}, op \in {I_Fdiv, I_Mod},
                                 y \in Signed({N_2})}
Expr3 ==
    {<<x, o1, N_2, o2, z>> : x \in {N_2, N_3}, z \in {N_1, N_3},
                             o1 \in Operators, o2 \in Operators}
    \cup {<<N_1, o1, N_2, o2, N_3, o3, N_2>> :
            o1 \in {I_Add, I_Sub}, o2 \in {I_Mult, I_Mod, I_Add},
            o3 \in {I_Exp, I_Mult, I_Sub}}
ParenOperands == {N_1, N_2, N_HexA, N_Oct, V_a, V_b}
ParenOps == {I_Add, I_Mult, I_Exp}
ExprParen ==
    {<<I_LParen>> \o x \o <<I_RParen>> : x \in Signed(ParenOperands)}
    \cup {<<I_LParen, x, I_RParen, op, y>> :
            x \in ParenOperands, op \in ParenOps, y \in ParenOperands}
    \cup {<<x, op, I_LParen, y, I_RParen>> :
            x \in ParenOperands, op \in ParenOps, y \in ParenOperands}
    \cup {<<x, o1, I_LParen, y, o2, z, I_RParen>> :
            x \in {N_2}, y \in {N_1, N_2}, z \in {N_1, V_b},
            o1 \in ParenOps, o2 \in ParenOps}
    \cup {<<I_LParen, I_LParen, x, op, y, I_RParen, I_RParen, op, x>> :
            x \in {N_2}, y \in {N_1}, op \in ParenOps}
ExprAbs ==
    {<<I_Abs, I_LParen>> \o x \o <<I_RParen>> : x \in Signed({N_1, N_10, V_a})}
    \cup {<<x, op, I_Abs, I_LParen, y, I_RParen>> :
            x \in {N_1}, op \in ParenOps, y \in {N_2}}

RadixLines ==
    {<<r, I_LParen, x, I_RParen>> : r \in Radixes,
                                    x \in {N_2, N_HexA, N_Oct, N_Bin, V_a}}
    \cup {<<r, I_LParen, x, I_Add, y, I_RParen>> : r \in Radixes,
                                    x \in {N_1, N_HexA}, y \in {N_1}}
    \cup {<<r, x>> : r \in Radixes, x \in {N_2}}
    \cup {<<I_Hex, I_LParen, N_255, I_RParen>>, <<I_Oct, I_LParen, N_8, I_RParen>>,
          <<I_Dec, I_LParen, N_Hexff, I_RParen>>,
          <<I_Dec, I_LParen, N_0755, I_RParen>>}

\* assignments: few right-hand sides, so that the store stays small
AssignExprs ==
    {<<N_1>>, <<N_HexA>>, <<I_Sub, N_Oct>>, <<V_b>>, <<V_b, I_Add, N_1>>,
     <<N_Bad, I_Add, N_1>>, <<N_1, I_LShift, I_Sub, N_1>>,
     <<I_Abs, I_LParen, N_1, I_RParen>>,
     <<I_LParen, V_b, I_RParen, I_Add, N_1>>}
AssignLines ==
    {<<V_a, I_Equals>> \o e : e \in AssignExprs} \cup {<<V_b, I_Equals, N_2>>}

\* lines the parser rejects, and the empty line
OtherLines ==
    {<<>>, <<I_Clear, I_LParen, I_RParen>>, <<I_Add>>, <<N_1, N_2>>,
     <<I_LParen, N_1>>, <<I_RParen>>, <<I_Abs, I_LParen, I_RParen>>,
     <<I_Text>>, <<N_1, I_Add>>, <<V_a, I_Equals>>, <<I_Equals, N_1>>,
     <<I_Sub>>, <<I_Sub, V_a>>, <<N_1, I_Equals, N_2>>,
     <<W_Less>>, <<N_1, I_Mult, W_Zero>>, <<N_1, I_Add, W_Hash>>}

Lines == Expr1 \cup Expr2 \cup Expr3 \cup ExprParen \cup ExprAbs
          \cup RadixLines \cup AssignLines \cup OtherLines

\* the text of a line: its words, in the way the lines of execTests are
\* written, a parenthesis next to what it holds, a verb next to its
\* parenthesis, the minus of a negative number next to the number, and
\* one space between the other words
NoGap(a, b) ==
    \/ a = <<"(">>
    \/ b = <<")">>
    \/ b = <<"(">> /\ a # <<>> /\ a[1] \in letters

\* a word that is a value: a "-" behind it is the operator
ValueWord(w) ==
    \/ w.typ \in {"itemNumber", "itemVariable", "itemRParen"}
    \/ w.typ = "word" /\ w.val[1] \in Chars(digits)

\* the word i of the line is the minus of a negative number
Unary(ws, i) ==
    /\ ws[i].val = <<"-">>
    /\ i = 1 \/ ~ValueWord(ws[i - 1])

\* the text from the word i on
RECURSIVE TextFrom(_, _)
TextFrom(ws, i) ==
    IF i > Len(ws) THEN <<>>
    ELSE IF i = Len(ws) THEN ws[i].val
    ELSE ws[i].val
           \o (IF NoGap(ws[i].val, ws[i + 1].val) \/ Unary(ws, i)
               THEN <<>> ELSE <<" ">>)
           \o TextFrom(ws, i + 1)

Text(ws) == TextFrom(ws, 1)

\* lex(input): what the lexer sends on its channel for the text
Channel(text) == ToItems(Lex(text))

\* a line as Parse is called on it: the text, and the items that Parse
\* reads from the channel of lex(text)
Read(ws) == [text |-> Text(ws), items |-> Channel(Text(ws))]
NoInput == [text |-> <<>>, items |-> <<>>]

\* the words of what arrived: the parser skips the whitespace items, and
\* the end-of-input item is no word of the line
IsWord(itm) == itm.typ \notin {"itemSpace", "itemEOF"}
Words(its) == SelectSeq(its, IsWord)

Inputs == {Read(ws) : ws \in Lines}

(***************************************************************************)
(* The session.  One ZappacState lives through a sequence of lines, as in  *)
(* TestExec: each line is parsed, and executed when the parser accepts it. *)
(*   Variables, disk   the store and the saved profiles                    *)
(*   arch              the build the program runs on                       *)
(*   pc                "prompt" before a line; after it "rejected" (Parse  *)
(*                     returned an error), "returned" (Exec returned) or   *)
(*                     "panicked"                                          *)
(*   input, updateVariables, nodes   the line, Exec's flag, Parse's nodes  *)
(*   result, err       what Parse or Exec returned                         *)
(*   trace             the reductions Exec made                            *)
(*   before            the store when Exec was called                      *)
(*   onSave            the OnSave calls Exec made                          *)
(***************************************************************************)
VARIABLES Variables, disk, arch, pc, input, updateVariables, nodes, result,
          err, trace, before, onSave, lexer, pending, consumer

vars == <<Variables, disk, arch, pc, input, updateVariables, nodes, result,
          err, trace, before, onSave, lexer, pending, consumer>>

\* the lexer goroutine, its channel and the receiver of one call of lex:
\* not running in the sessions above
pipe == <<lexer, pending, consumer>>
NoLexer == [l |-> newLexer(<<>>), fn |-> "nil", ahead |-> <<>>, sent |-> 0,
            st |-> "idle"]
NoConsumer == [kind |-> "none", received |-> <<>>, wants |-> <<>>,
               st |-> "idle"]

\* NewZappacState with no profile file on disk
NewZappacState == load(EmptyStore, EmptyStore, <<>>, TRUE).Vars

Init ==
    /\ Variables = NewZappacState
    /\ disk = EmptyStore
    /\ arch \in Architectures
    /\ pc = "prompt"
    /\ input = NoInput
    /\ updateVariables = TRUE
    /\ nodes = <<>>
    /\ result = <<>>
    /\ err = NoErr
    /\ trace = <<>>
    /\ before = EmptyStore
    /\ onSave = 0
    /\ lexer = NoLexer
    /\ pending = <<>>
    /\ consumer = NoConsumer

\* the line ends with the error (or the panic) of Parse's outcome pr
Rejected(ln, pr) ==
    /\ pr.st = "panic" \/ pr.err # NoErr
    /\ pc' = IF pr.st = "panic" THEN "panicked" ELSE "rejected"
    /\ nodes' = pr.nodes
    /\ err' = pr.err
    /\ input' = ln
    /\ UNCHANGED <<Variables, disk, arch, updateVariables, result, trace,
                   before, onSave, pipe>>

\* Parse returns an error (or panics): Exec is not called
Reject(ln) ==
    /\ pc = "prompt"
    /\ Rejected(ln, Parse(ln.items))

\* the line ends with Exec's outcome ex
Executed(ln, upd, ns, ex) ==
    /\ ex.st # "unmodelled"
    /\ pc' = IF ex.st = "panic" THEN "panicked" ELSE "returned"
    /\ nodes' = ns
    /\ result' = ex.result
    /\ err' = ex.err
    /\ trace' = ex.trace
    /\ Variables' = ex.Vars
    /\ disk' = ex.disk
    /\ onSave' = ex.onSave
    /\ input' = ln
    /\ updateVariables' = upd
    /\ before' = Variables
    /\ UNCHANGED <<arch, pipe>>

\* Exec is called when Parse's outcome pr has no error
Parsed(ln, upd, ioOK, pr) ==
    /\ pr.st = "ok" /\ pr.err = NoErr
    /\ Executed(ln, upd, pr.nodes,
                Exec(Variables, disk, pr.nodes, upd, arch, ioOK))

\* Parse accepts the line and Exec runs on its nodes
Run(ln, upd, ioOK) ==
    /\ pc = "prompt"
    /\ Parsed(ln, upd, ioOK, Parse(ln.items))

\* the caller goes on to the next line
NextLine ==
    /\ pc \in {"rejected", "returned"}
    /\ pc' = "prompt"
    /\ input' = NoInput
    /\ updateVariables' = TRUE
    /\ nodes' = <<>>
    /\ result' = <<>>
    /\ err' = NoErr
    /\ trace' = <<>>
    /\ before' = EmptyStore
    /\ onSave' = 0
    /\ UNCHANGED <<Variables, disk, arch, pipe>>

\* the caller recovers from the panic; the state object lives on
Recover ==
    /\ pc = "panicked"
    /\ pc' = "prompt"
    /\ input' = NoInput
    /\ updateVariables' = TRUE
    /\ nodes' = <<>>
    /\ result' = <<>>
    /\ err' = NoErr
    /\ trace' = <<>>
    /\ before' = EmptyStore
    /\ onSave' = 0
    /\ UNCHANGED <<Variables, disk, arch, pipe>>

\* whether the line is an assignment: the flag matters to Exec for these
IsAssignLine(its) ==
    Len(Words(its)) > 1 /\ Words(its)[2].typ = "itemEquals"

\* whether the line is save(name) or load(name)
IsDiskLine(its) ==
    Len(Words(its)) > 0 /\ Words(its)[1].typ \in {"itemSave", "itemLoad"}

Next ==
    \/ \E ln \in Inputs : Reject(ln)
    \/ \E ln \in Inputs :
         \E upd \in (IF IsAssignLine(ln.items) THEN BOOLEAN ELSE {TRUE}),
            ioOK \in (IF IsDiskLine(ln.items) THEN BOOLEAN ELSE {TRUE}) :
            Run(ln, upd, ioOK)
    \/ NextLine
    \/ Recover

Spec == Init /\ [][Next]_vars

(***************************************************************************)
(* The parser on its own, as in TestParse: each line is handed to Parse    *)
(* and its nodes and error are looked at; nothing is executed.  The lines  *)
(* are all the item sequences of up to MaxItems items over ParseAlphabet,  *)
(* and some longer ones.  pc is "parsed" after Parse returned.             *)
(***************************************************************************)
MaxItems == 4

ParseAlphabet == {N_1, N_Oct, V_a, I_Sub, I_Add, I_LParen, I_RParen,
                  I_Equals, I_Abs, I_Hex, I_Save, W_Zero, I_Text}

ShortLines == UNION {[1..n -> ParseAlphabet] : n \in 0..MaxItems}

LongLines ==
    {<<I_Load, I_LParen, I_Text, I_RParen>>,
     <<I_Clear, I_LParen, I_RParen>>,
     <<I_Load, I_LParen, I_Text, I_RParen, I_Text>>,
     <<I_Save, I_LParen, I_Text, I_RParen, I_Text>>,
     <<I_Save, I_LParen, I_Text, I_RParen, W_Hash>>,
     <<I_Save, W_Space, I_LParen, I_Text, W_Space, I_RParen>>,
     <<I_Clear, I_LParen, I_RParen, W_Hash>>,
     <<I_Clear, I_LParen, I_RParen, I_RParen>>,
     <<I_Clear, I_LParen, W_Space, I_RParen, W_Space>>,
     <<I_Load, I_LParen, W_Hash>>,
     <<W_Hash>>, <<N_1, I_Add, W_Hash>>,
     <<V_a, W_Space, I_Equals, W_Space, N_1>>,
     <<W_Space, V_a, I_Equals, N_1, I_Add, N_Oct>>,
     <<V_a, I_Equals, V_a, I_Equals, N_1>>,
     <<V_a, I_Equals, I_LParen, N_1, I_RParen>>,
     <<V_a, I_Equals, I_Sub, N_Oct, I_Sub, I_Sub, N_1>>,
     <<I_Sub, N_1, I_Sub, I_Sub, N_HexA>>,
     <<I_Sub, N_1, W_Space, I_Sub, W_Space, I_Sub, N_Bin>>,
     <<N_1, I_Mult, I_Sub, W_Half, I_Sub, V_a>>,
     <<I_Hex, I_LParen, I_Sub, N_Hexff, I_RParen>>,
     <<I_Abs, I_LParen, I_Sub, N_1, I_RParen>>,
     <<I_LParen, I_LParen, N_1, I_RParen, I_RParen>>,
     <<I_LParen, I_LParen, N_1, I_RParen, I_RParen, I_RParen>>,
     <<I_LParen, I_LParen, N_1, I_RParen, I_Sub, N_1, I_RParen>>,
     <<I_LParen, N_1, I_RParen, I_Sub, W_Space>>,
     <<I_LParen, N_1, I_RParen, I_Sub, N_1>>,
     <<I_LParen, N_Oct, I_RParen, I_Add, V_a>>,
     <<I_LParen, V_a, I_RParen, I_Sub, N_1, I_Exp>>}

ParserLines == ShortLines \cup LongLines

ParserInputs == {Read(ws) : ws \in ParserLines}

\* Parse returned pr for the line
ParsedLine(ln, pr) ==
    /\ pc' = IF pr.st = "panic" THEN "panicked" ELSE "parsed"
    /\ nodes' = pr.nodes
    /\ err' = pr.err
    /\ input' = ln
    /\ UNCHANGED <<Variables, disk, arch, updateVariables, result, trace,
                   before, onSave, pipe>>

\* TestParse's call of Parse
ParseLine(ln) ==
    /\ pc = "prompt"
    /\ ParsedLine(ln, Parse(ln.items))

\* TestParse goes on to the next line
NextParse ==
    /\ pc = "parsed"
    /\ err = NoErr
    /\ pc' = "prompt"
    /\ input' = NoInput
    /\ nodes' = <<>>
    /\ err' = NoErr
    /\ UNCHANGED <<Variables, disk, arch, updateVariables, result, trace,
                   before, onSave, pipe>>

ParseNext ==
    \/ pc = "prompt" /\ \E ln \in ParserInputs : ParseLine(ln)
    \/ NextParse

ParseSpec == Init /\ [][ParseNext]_vars

(***************************************************************************)
(* The session again, on the lines that matter to the profiles: a few      *)
(* assignments and reads, clear(), save and load of two profiles, a line   *)
(* the parser rejects and a line on which Exec panics.                     *)
(***************************************************************************)
I_Bar == Item("itemText", <<"b","a","r">>)

DiskLines ==
    {<<V_a, I_Equals, N_1>>, <<V_a, I_Equals, N_2>>, <<V_b, I_Equals, N_1>>,
     <<V_a>>, <<N_1, I_Add, N_2>>,
     <<I_Clear, I_LParen, I_RParen>>,
     <<I_Save, I_LParen, I_Text, I_RParen>>,
     <<I_Load, I_LParen, I_Text, I_RParen>>,
     <<I_Save, I_LParen, I_Bar, I_RParen>>,
     <<I_Load, I_LParen, I_Bar, I_RParen>>,
     <<I_Save, I_LParen, I_Text, I_RParen, I_Text>>,
     <<N_1, I_Add>>,
     <<N_1, I_LShift, I_Sub, N_1>>}

DiskInputs == {Read(ws) : ws \in DiskLines}

DiskNext ==
    \/ pc = "prompt" /\ \E ln \in DiskInputs : Reject(ln)
    \/ pc = "prompt" /\ \E ln \in DiskInputs :
         \E upd \in (IF IsAssignLine(ln.items) THEN BOOLEAN ELSE {TRUE}),
            ioOK \in (IF IsDiskLine(ln.items) THEN BOOLEAN ELSE {TRUE}) :
            Run(ln, upd, ioOK)
    \/ NextLine
    \/ Recover

DiskSpec == Init /\ [][DiskNext]_vars

(***************************************************************************)
(* One call of lex, with the lexer goroutine and the receiver of its       *)
(* channel running side by side.  The receiver is collect of TestLex,      *)
(* which takes items up to the end-of-input or error item, or the parser   *)
(* of Parse.  The channel is unbuffered: the lexer stays in its send       *)
(* until the receiver takes the item.                                      *)
(*   lexer     l and fn: the lexer state and the state function to call    *)
(*             next; sent: the sends begun; st: "running", "blocked" in a  *)
(*             send, or "closed" after close(l.items)                      *)
(*   pending   the item of the send in progress                            *)
(*   consumer  kind, the items received, and st: "receiving" or "returned" *)
(* Both sides are deterministic in the text.  What the calls of the state  *)
(* functions return and what the receiver decides after each item are      *)
(* worked out when lex is called (lexer.ahead, consumer.wants) and taken   *)
(* from there step by step.                                                *)
(* The texts are all the texts of up to MaxChars characters over two       *)
(* small alphabets, the texts of lexTests and some lines of their own.     *)
(***************************************************************************)
MaxChars == 4

NumberAlphabet == {"0", "1", "b", "x", ".", " "}
OperatorAlphabet == {"*", "/", "<", ">", "1", " "}

ShortTexts ==
    UNION {[1..n -> NumberAlphabet] \cup [1..n -> OperatorAlphabet] :
              n \in 0..MaxChars}

LongTexts ==
    {<<>>,
     <<"<">>,
     <<" ","\t","\r","\n"," ","\t","\t","\r","\n">>,
     <<"$","f","o","o">>,
     <<"$","f","_","a","_","b","=","7","1","7">>,
     <<"$","b","a","r"," "," "," ","="," "," ","b","0","0","1">>,
     <<"b","0","0","1"," ","<","<"," ","1","0">>,
     <<"0","x","7","f",">",">","1">>,
     <<"3","+","1","*","2","*","*","3","/","4","/","/","2","%","3","-","1">>,
     <<"$","f","o","o"," ","="," ","3"," ","+"," ","$","b","a","r">>,
     <<"(","(","3","+","$","b","a","r",")","-","1","*","3",")","/","/","2">>,
     <<"1","2",".","3","4","5","6">>,
     <<"d","e","c","(","0","7","5","5",")">>,
     <<"h","e","x","("," ","-","7","+","b","0","1"," ",")">>,
     <<"l","o","a","d","(","f","o","o",")">>,
     <<"s","a","v","e","(","b","a","r","_","n","a","m","e",")">>,
     <<"s","a","v","e","(","f","o","o",")","x">>,
     <<"s","a","v","e","(","f","o","o",")","#">>,
     <<"1"," ","2"," ","3">>,
     <<"1"," ","2">>,
     <<")">>,
     <<"(","1",")"," ","-">>,
     <<"(","$","a",")","-">>,
     <<"2"," ","+"," ","-","1">>,
     <<"-","1"," ","-"," ","-","2">>,
     <<"1"," ","+">>,
     <<"(","1">>,
     <<"1"," ","+"," ","#">>,
     <<"a","b","s","(","1",")">>,
     <<"b","*","2">>,
     <<"b","*","*","2">>,
     <<"0","*","*","1">>,
     <<"b"," ","1">>,
     <<"1","b">>,
     <<"0","X","1","F">>,
     <<"0"," ","+"," ","1">>,
     <<"1"," ","+"," ","0">>,
     <<"0",".","5","*","2">>,
     <<"1","0","/","0">>,
     <<"1",">","2">>,
     <<"1","<","<","<","2">>,
     <<"2","*","*","*","2">>,
     <<"$">>,
     <<"$"," ","+"," ","1">>,
     <<"-","$","a">>,
     <<"1"," ","."," ","2">>}

LexInputs == ShortTexts \cup LongTexts

PipeInit ==
    /\ Variables = NewZappacState
    /\ disk = EmptyStore
    /\ arch = CHOOSE a \in Architectures : TRUE
    /\ pc = "prompt"
    /\ updateVariables = TRUE
    /\ nodes = <<>>
    /\ result = <<>>
    /\ err = NoErr
    /\ trace = <<>>
    /\ before = EmptyStore
    /\ onSave = 0
    /\ input = <<>>
    /\ lexer = NoLexer
    /\ pending = <<>>
    /\ consumer = NoConsumer

session == <<Variables, disk, arch, pc, updateVariables, nodes, result, err,
             trace, before, onSave>>

\* the calls of the state functions in lexer.run from s on: what each
\* returns, [l, state], up to the nil state
RECURSIVE LexerSteps(_)
LexerStepsFrom(s) == <<s>> \o LexerSteps(s)

LexerSteps(s) ==
    IF s.state = "nil" THEN <<>>
    ELSE LexerStepsFrom(state(s.l, s.state))

\* whether the parser, having received these items, asks for another:
\* nextItem is at its receive when the items so far do not end the parse
WantsNext(r) == r.st = "ok" /\ r.err = ErrorInternal

\* whether the receiver goes on receiving after the items its: collect
\* stops at the end-of-input or error item, the parser when Parse returns
Receiving(kind, its) ==
    IF kind = "TestLex"
    THEN Last(its).typ \notin {"itemEOF", "itemError"}
    ELSE WantsNext(Parse(ToItems(its)))

\* for each number of items of the stream: whether the receiver goes on
ReceiverPlan(kind, stream) ==
    [n \in 1..Len(stream) |-> Receiving(kind, SubSeq(stream, 1, n))]

\* lex(text), called by the receiver kind: the lexer goroutine starts
\* (go l.run()) on a new channel
StartLex(text, kind) ==
    /\ input' = text
    /\ lexer' = [l |-> newLexer(text), fn |-> "lexBase",
                 ahead |-> LexerSteps(To(newLexer(text), "lexBase")),
                 sent |-> 0, st |-> "running"]
    /\ pending' = <<>>
    /\ consumer' = [kind |-> kind, received |-> <<>>,
                    wants |-> ReceiverPlan(kind, Lex(text)),
                    st |-> "receiving"]
    /\ UNCHANGED session

\* the lexer goes on to its next send or to the return of the state
\* function: the item it made, if any, is the last of l.out
LexStep ==
    /\ lexer.st = "running"
    /\ lexer.sent = Len(lexer.l.out)
    /\ lexer.fn # "nil"
    /\ lexer' = [lexer EXCEPT !.l = Head(lexer.ahead).l,
                              !.fn = Head(lexer.ahead).state,
                              !.ahead = Tail(@)]
    /\ UNCHANGED <<pending, consumer, input, session>>

LexSend_NoWait ==
    /\ lexer.st = "running"
    /\ lexer.sent < Len(lexer.l.out)
    /\ pending' = Append(pending, lexer.l.out[lexer.sent + 1])
    /\ lexer' = [lexer EXCEPT !.sent = @ + 1]
    /\ UNCHANGED <<consumer, input, session>>

\* emitItem: l.items <- i begins, the lexer waits in it
LexSend ==
    /\ lexer.st = "running"
    /\ lexer.sent < Len(lexer.l.out)
    /\ pending' = Append(pending, lexer.l.out[lexer.sent + 1])
    /\ lexer' = [lexer EXCEPT !.sent = @ + 1, !.st = "blocked"]
    /\ UNCHANGED <<consumer, input, session>>

\* lexer.run: the state is nil, close(l.items)
LexClose ==
    /\ lexer.st = "running"
    /\ lexer.sent = Len(lexer.l.out)
    /\ lexer.fn = "nil"
    /\ lexer' = [lexer EXCEPT !.st = "closed"]
    /\ UNCHANGED <<pending, consumer, input, session>>

\* the receive of collect and of parser.nextItem: the item is taken and
\* the lexer goes on
Take ==
    /\ consumer.st = "receiving"
    /\ pending # <<>>
    /\ consumer' = [consumer EXCEPT
                       !.received = Append(@, Head(pending)),
                       !.st = IF consumer.wants[Len(consumer.received) + 1]
                              THEN "receiving" ELSE "returned"]
    /\ pending' = Tail(pending)
    /\ lexer' = [lexer EXCEPT !.st = "running"]
    /\ UNCHANGED <<input, session>>

\* the receive on the closed channel: collect breaks, nextItem leaves its
\* loop with ErrorInternal
TakeClosed ==
    /\ consumer.st = "receiving"
    /\ lexer.st = "closed"
    /\ consumer' = [consumer EXCEPT !.st = "returned"]
    /\ UNCHANGED <<lexer, pending, input, session>>

PipeRun == LexStep \/ LexSend \/ LexClose \/ Take \/ TakeClosed

PipeNext ==
    \/ /\ lexer.st = "idle"
       /\ \E text \in LexInputs, kind \in {"TestLex", "Parse"} :
             StartLex(text, kind)
    \/ PipeRun

PipeSpec == PipeInit /\ [][PipeNext]_vars

\* the goroutines are scheduled fairly: one that can go on does
FairPipeSpec == PipeSpec /\ WF_vars(PipeRun)

(***************************************************************************)
(* Properties.                                                             *)
(***************************************************************************)
\* the words of the line that was read
line == Words(input.items)

Accepted == pc \in {"returned", "panicked"}
Returned == pc = "returned"

\* the number literals, as texts
IsBinaryLiteral(t) ==
    /\ Len(t) >= 2
    /\ t[1] = "b"
    /\ \A k \in 2..Len(t) : t[k] \in binary

IsHexLiteral(t) ==
    /\ Len(t) >= 3
    /\ t[1] = "0"
    /\ t[2] \in {"x", "X"}
    /\ \A k \in 3..Len(t) : t[k] \in hexadecimal

\* digits with at most one decimal point: also "0", "0.1" and "0755"
IsDecimalLiteral(t) ==
    /\ Len(t) >= 1
    /\ \A k \in 1..Len(t) : t[k] \in Chars(digits) \cup {"."}
    /\ t[1] # "."
    /\ t[Len(t)] # "."
    /\ Cardinality({k \in 1..Len(t) : t[k] = "."}) <= 1

IsLiteral(t) == IsBinaryLiteral(t) \/ IsHexLiteral(t) \/ IsDecimalLiteral(t)

\* the line is made of number literals and operators only
IsLiteralExpr(its) ==
    /\ Len(its) > 0
    /\ \A i \in 1..Len(its) : its[i].typ \in operatorItems \cup {"itemNumber"}

\* the line is one number literal, with or without a leading minus
IsLiteralLine(its) ==
    \/ Len(its) = 1 /\ its[1].typ = "itemNumber"
    \/ Len(its) = 2 /\ its[1].typ = "itemSub" /\ its[2].typ = "itemNumber"

\* the text of such a line
LiteralText(its) ==
    IF Len(its) = 1 THEN its[1].val ELSE its[1].val \o its[2].val

\* the variable names a node list refers to
Referenced(ns) ==
    {ns[i].Name : i \in {j \in 1..Len(ns) : ns[j].Type = "NodeVariable"}}

\* C1: Parse never panics, and Exec on the nodes of an accepted line
\* returns a result or an error: no line ends in a runtime panic.
C1_NeverPanics == pc # "panicked"

\* the precedence tier of an operator: 1 for **, 3 for + and -, 2 otherwise
Tier(t) ==
    IF t = "NodeExp" THEN 1 ELSE IF t \in {"NodeAdd", "NodeSub"} THEN 3 ELSE 2

\* the operator at pos is of the first tier present, and the leftmost of it
LeftmostOfFirstTier(ns, pos) ==
    /\ At(ns, pos).Type \in OperatorNodes
    /\ \A j \in 0..(Len(ns) - 1) :
        At(ns, j).Type \in OperatorNodes =>
            \/ Tier(At(ns, j).Type) > Tier(At(ns, pos).Type)
            \/ Tier(At(ns, j).Type) = Tier(At(ns, pos).Type) /\ j >= pos

\* a completed reduction put one decimal Number node where the operator and
\* its two neighbours were
ReplacedByNumber(r) ==
    r.st = "ok" =>
        /\ r.left = "NodeNumber" /\ r.right = "NodeNumber"
        /\ Len(r.after) = Len(r.before) - 2
        /\ \A j \in 0..(r.pos - 2) : At(r.after, j) = At(r.before, j)
        /\ At(r.after, r.pos - 1).Type = "NodeNumber"
        /\ At(r.after, r.pos - 1).System = Dec
        /\ \A j \in r.pos..(Len(r.after) - 1) :
            At(r.after, j) = At(r.before, j + 2)

\* the node list after the last reduction
FinalNodes == IF trace = <<>> THEN nodes ELSE trace[Len(trace)].after

\* C2: on an accepted parenthesis-free line of number literals every
\* reduction takes the leftmost operator of the first tier present (**,
\* then * / // % & | ^ ~ << >>, then + -), each completed reduction
\* replaces the operator and its neighbours by one decimal Number node, the
\* reductions follow one another, and the result is the text of the one
\* node that remains before the end marker.
C2_TieredReduction ==
    (Accepted /\ IsLiteralExpr(line)) =>
        /\ \A k \in 1..Len(trace) :
            /\ trace[k].before = (IF k = 1 THEN nodes ELSE trace[k - 1].after)
            /\ LeftmostOfFirstTier(trace[k].before, trace[k].pos)
            /\ ReplacedByNumber(trace[k])
        /\ (Returned /\ err = NoErr) =>
            /\ Len(FinalNodes) = 2
            /\ FinalNodes[1].Type = "NodeNumber"
            /\ FinalNodes[2].Type = "NodeEOF"
            /\ result = FinalNodes[1].Value

\* 1 + 2 * 3 ** 2: the three tiers are reduced from the right of the line
C2_Witness ==
    /\ Returned /\ err = NoErr /\ IsLiteralExpr(line)
    /\ Len(trace) = 3
    /\ trace[1].op = "NodeExp" /\ trace[1].pos = 5
    /\ trace[2].op = "NodeMult" /\ trace[2].pos = 3
    /\ trace[3].op = "NodeAdd" /\ trace[3].pos = 1
    /\ result = <<"1", "9">>

\* C3: in every reduction of an accepted line both neighbours of the
\* reduced operator are Number or Variable nodes.
C3_NeighboursAreValues ==
    Accepted =>
        \A k \in 1..Len(trace) :
            /\ trace[k].left \in ValueNodes
            /\ trace[k].right \in ValueNodes

\* the node a reference to a stored variable stands for
Deref(V, n) ==
    IF n.Type = "NodeVariable" /\ n.Name \in DOMAIN V THEN V[n.Name] ELSE n

\* the last line returned what Exec's outcome ex holds
SameOutcome(ex) == result = ex.result /\ err = ex.err

\* C4: a line whose variables are all in the store evaluates as the same
\* line with the stored numbers written in place of the variables.
C4_VariableAsItsNumber ==
    (Returned /\ Len(nodes) > 0 /\ Referenced(nodes) # {}
        /\ Referenced(nodes) \subseteq DOMAIN before) =>
        SameOutcome(Exec(before, disk,
                         [i \in 1..Len(nodes) |-> Deref(before, nodes[i])],
                         updateVariables, arch, TRUE))

\* C5: a line that refers to a variable missing from the store fails with
\* the unknown-variable error and gives no result.
C5_UnknownVariable ==
    (Returned /\ Len(nodes) > 0 /\ ~(Referenced(nodes) \subseteq DOMAIN before)) =>
        /\ err.kind = "unknown variable"
        /\ err.arg \notin DOMAIN before
        /\ result = <<>>

IsAssignment == Len(nodes) > 0 /\ nodes[1].Type = "NodeAssign"

\* C6: when Exec returns an error for an assignment line the store is the
\* store before the call.
C6_ErrorLeavesStore ==
    (Returned /\ IsAssignment /\ err # NoErr) => Variables = before

\* a committing assignment to a variable already set fails on an unknown
\* variable
C6_Witness ==
    /\ Returned /\ IsAssignment /\ updateVariables
    /\ err.kind = "unknown variable"
    /\ nodes[1].Target \in DOMAIN before

\* C7: an assignment line gives the same result and error with and
\* without updateVariables; without it the store is unchanged, with it
\* only the target's entry may differ.
C7_DryRun ==
    (Returned /\ IsAssignment) =>
        /\ SameOutcome(Exec(before, disk, nodes, ~updateVariables, arch, TRUE))
        /\ ~updateVariables => Variables = before
        /\ updateVariables =>
            /\ (DOMAIN Variables) \ {nodes[1].Target}
                    = (DOMAIN before) \ {nodes[1].Target}
            /\ \A x \in (DOMAIN before) \ {nodes[1].Target} :
                    Variables[x] = before[x]

\* a dry run of an assignment that would change the target's entry, with
\* another variable in the store
C7_Witness ==
    /\ Returned /\ IsAssignment /\ ~updateVariables /\ err = NoErr
    /\ (DOMAIN before) \ {nodes[1].Target} # {}
    /\ nodes[1].Target \in DOMAIN before
    /\ before[nodes[1].Target].Value # result

\* C8: the result of a successful line that starts with a radix-setter is
\* a literal of the requested radix.
C8_RequestedRadix ==
    (Returned /\ Len(nodes) > 0 /\ nodes[1].Type = "NodeSetOutput"
        /\ err = NoErr) =>
        /\ Len(result) > 0
        /\ parseNumberSystem(result) = nodes[1].Output

\* the text is one number literal, with or without a leading minus
IsLiteralLineText(t) ==
    \/ IsLiteral(t)
    \/ Len(t) > 1 /\ t[1] = "-" /\ IsLiteral(Tail(t))

\* C9: a line that is a single number literal, decimal, hex or octal, a
\* long integer or a fraction, with or without a leading minus, evaluates
\* to the literal's own text: nothing is converted and no digit is lost.
C9_LiteralText ==
    (pc # "prompt" /\ IsLiteralLineText(input.text)) =>
        Returned /\ err = NoErr /\ result = input.text

\* the long fraction of execTests: the lexer stops at its decimal point
C9_FractionRejected ==
    /\ pc = "rejected"
    /\ input.text = W_Frac.val
    /\ err = Err("lexer", Unexpected("."))

\* the literals that reach Exec as one number item come back with their
\* letters in lower case: no digit is lost or converted
C9_LiteralTextLowered ==
    (Accepted /\ IsLiteralLine(line)) =>
        /\ Returned /\ err = NoErr
        /\ result = ToLower(LiteralText(line))
        /\ Len(result) = Len(LiteralText(line))
        /\ \A i \in 1..Len(result) :
            IsDigit(LiteralText(line)[i]) => result[i] = LiteralText(line)[i]

\* -0XfF gives -0xff
C9_Witness ==
    /\ Returned /\ IsLiteralLine(line) /\ Len(line) = 2
    /\ result # LiteralText(line)
    /\ result = <<"-", "0", "x", "f", "f">>

\* abs( literal ) with or without a minus
IsAbsOfLiteral(its) ==
    /\ Len(its) \in {4, 5}
    /\ its[1].typ = "itemAbs" /\ its[2].typ = "itemLParen"
    /\ its[Len(its)].typ = "itemRParen"
    /\ its[Len(its) - 1].typ = "itemNumber"
    /\ Len(its) = 5 => its[3].typ = "itemSub"

\* C10: abs of a literal, negative or not, yields the literal without its
\* sign and no error: abs(10) and abs(-10) yield 10.
C10_Abs ==
    (Accepted /\ IsAbsOfLiteral(line)) =>
        Returned /\ err = NoErr /\ result = line[Len(line) - 1].val


(***************************************************************************)
(* Lines a op b over decimal integer literals, each with or without a      *)
(* minus sign.                                                             *)
(***************************************************************************)
IsDecimalInt(itm) ==
    /\ itm.typ = "itemNumber"
    /\ Len(itm.val) > 0
    /\ \A i \in 1..Len(itm.val) : IsDigit(itm.val[i])
    /\ Len(itm.val) > 1 => itm.val[1] # "0"

\* the number of items of the left operand
LeftLen(its) == IF its[1].typ = "itemSub" THEN 2 ELSE 1

IsIntBinary(its) ==
    /\ Len(its) >= 3
    /\ Len(its) \in {LeftLen(its) + 2, LeftLen(its) + 3}
    /\ IsDecimalInt(its[LeftLen(its)])
    /\ its[LeftLen(its) + 1].typ \in operatorItems
    /\ IsDecimalInt(its[Len(its)])
    /\ Len(its) = LeftLen(its) + 3 => its[Len(its) - 1].typ = "itemSub"

LeftInt(its) ==
    IF LeftLen(its) = 2 THEN -DigitsValue(its[2].val, 10)
    ELSE DigitsValue(its[1].val, 10)
RightInt(its) ==
    IF Len(its) = LeftLen(its) + 3 THEN -DigitsValue(its[Len(its)].val, 10)
    ELSE DigitsValue(its[Len(its)].val, 10)
OpOf(its) == its[LeftLen(its) + 1].typ

\* the decimal text of an integer
IntText(n) == IF n < 0 THEN <<"-">> \o Digits(-n) ELSE Digits(n)

\* bitwise AND, OR and XOR of two non-negative integers
RECURSIVE BitAnd(_, _)
BitAnd(a, b) ==
    IF a = 0 \/ b = 0 THEN 0
    ELSE 2 * BitAnd(a \div 2, b \div 2) + (IF a % 2 = 1 /\ b % 2 = 1 THEN 1 ELSE 0)
RECURSIVE BitOr(_, _)
BitOr(a, b) ==
    IF a = 0 THEN b ELSE IF b = 0 THEN a
    ELSE 2 * BitOr(a \div 2, b \div 2) + (IF a % 2 = 1 \/ b % 2 = 1 THEN 1 ELSE 0)
RECURSIVE BitXor(_, _)
BitXor(a, b) ==
    IF a = 0 THEN b ELSE IF b = 0 THEN a
    ELSE 2 * BitXor(a \div 2, b \div 2) + (IF a % 2 # b % 2 THEN 1 ELSE 0)

\* C11: a & b, a | b and a ^ b over non-negative integers return the
\* bitwise AND, OR and XOR of a and b.
C11_Bitwise ==
    (Accepted /\ IsIntBinary(line) /\ Len(line) = 3
        /\ OpOf(line) \in {"itemAnd", "itemOr", "itemXor"}) =>
        /\ Returned /\ err = NoErr
        /\ result = IntText(
             CASE OpOf(line) = "itemAnd" -> BitAnd(LeftInt(line), RightInt(line))
               [] OpOf(line) = "itemOr"  -> BitOr(LeftInt(line), RightInt(line))
               [] OpOf(line) = "itemXor" -> BitXor(LeftInt(line), RightInt(line)))

\* the quotient rounded toward negative infinity, and its remainder
FloorDiv(a, b) == IF b > 0 THEN a \div b ELSE (-a) \div (-b)
FloorMod(a, b) == a - FloorDiv(a, b) * b

\* C12: for integers a and b # 0, a // b is the quotient rounded toward
\* negative infinity and a % b the floored modulo.
C12_FlooredDivMod ==
    (Accepted /\ IsIntBinary(line) /\ OpOf(line) \in {"itemFdiv", "itemMod"}
        /\ RightInt(line) # 0) =>
        /\ Returned /\ err = NoErr
        /\ OpOf(line) = "itemFdiv" =>
              result = IntText(FloorDiv(LeftInt(line), RightInt(line)))
        /\ OpOf(line) = "itemMod" =>
              result = IntText(FloorMod(LeftInt(line), RightInt(line)))

(***************************************************************************)
(* Properties of the parser, stated on the parser's own session.           *)
(***************************************************************************)
ParseReturned == pc = "parsed"
ParseAccepted == pc = "parsed" /\ err = NoErr
ParseRejected == pc = "parsed" /\ err # NoErr

\* the items of the line the parser sees
NonSpace(its) == SelectSeq(its, LAMBDA i : i.typ # "itemSpace")

\* C13: Parse never returns an empty node sequence; its last node is NodeEOF
\* exactly when the error is nil and the parsing-stopped marker exactly when
\* the error is non-nil; in an accepted sequence NodeEOF is nowhere but last.
C13_LastNodeTellsOutcome ==
    ParseReturned =>
        /\ Len(nodes) > 0
        /\ (Last(nodes).Type = "NodeEOF") <=> (err = NoErr)
        /\ (Last(nodes).Type = "NodeParsingStopped") <=> (err # NoErr)
        /\ err = NoErr =>
              \A i \in 1..(Len(nodes) - 1) : nodes[i].Type # "NodeEOF"

\* a rejected line whose nodes end with the end marker and then the
\* parsing-stopped marker
C13_Witness ==
    /\ ParseRejected
    /\ Len(nodes) > 2
    /\ nodes[Len(nodes) - 1].Type = "NodeEOF"
    /\ Last(nodes).Type = "NodeParsingStopped"

\* how many of the first k nodes have the type
CountNodes(ns, type, k) == Cardinality({i \in 1..k : ns[i].Type = type})

\* how many of the first k items have the type
CountItems(its, typ, k) == Cardinality({i \in 1..k : its[i].typ = typ})

\* the parentheses the first k items leave open
OpenDepth(its, k) ==
    CountItems(its, "itemLParen", k) - CountItems(its, "itemRParen", k)

\* a ")" of the line arrives when no parenthesis is open
ClosesUnopened(its) ==
    \E k \in 1..Len(its) :
        its[k].typ = "itemRParen" /\ OpenDepth(its, k - 1) = 0

\* C14: in an accepted node sequence the LParen and RParen nodes are as
\* many and no prefix has more RParen than LParen nodes; a line in which a
\* ")" arrives at open depth zero is rejected, and so is a line that ends
\* with a parenthesis still open.
C14_ParenBalance ==
    ParseReturned =>
        /\ err = NoErr =>
              /\ CountNodes(nodes, "NodeLParen", Len(nodes))
                    = CountNodes(nodes, "NodeRParen", Len(nodes))
              /\ \A k \in 1..Len(nodes) :
                    CountNodes(nodes, "NodeRParen", k)
                       <= CountNodes(nodes, "NodeLParen", k)
        /\ ClosesUnopened(line) => err # NoErr
        /\ OpenDepth(line, Len(line)) > 0 => err # NoErr

\* the part of C14 about the nodes alone
C14_NodesBalanced ==
    ParseAccepted =>
        /\ CountNodes(nodes, "NodeLParen", Len(nodes))
              = CountNodes(nodes, "NodeRParen", Len(nodes))
        /\ \A k \in 1..Len(nodes) :
              CountNodes(nodes, "NodeRParen", k)
                 <= CountNodes(nodes, "NodeLParen", k)

\* C14 on the lines that do not start with "-"
C14_NoLeadingMinus ==
    (Len(line) > 0 /\ line[1].typ # "itemSub") => C14_ParenBalance

\* C15: in an accepted node sequence each Number, Variable or RParen node is
\* directly followed by an operator node, an RParen node or the end marker,
\* and each operator node is directly preceded by a Number, Variable or
\* RParen node.
C15_Adjacency ==
    ParseAccepted =>
        \A i \in 1..Len(nodes) :
            /\ nodes[i].Type \in ValueNodes \cup {"NodeRParen"} =>
                  /\ i < Len(nodes)
                  /\ nodes[i + 1].Type
                        \in OperatorNodes \cup {"NodeRParen", "NodeEOF"}
            /\ nodes[i].Type \in OperatorNodes =>
                  /\ i > 1
                  /\ nodes[i - 1].Type \in ValueNodes \cup {"NodeRParen"}

\* an accepted line with an operator after a closing parenthesis and a
\* value after the operator
C15_Witness ==
    /\ ParseAccepted
    /\ \E i \in 2..(Len(nodes) - 2) :
          /\ nodes[i - 1].Type = "NodeRParen"
          /\ nodes[i].Type \in OperatorNodes
          /\ nodes[i + 1].Type \in ValueNodes
          /\ nodes[i + 2].Type = "NodeEOF"

\* the nodes Parse built from items: its result without the two markers
Built(ns) ==
    SelectSeq(ns, LAMBDA n : n.Type \notin {"NodeEOF", "NodeParsingStopped"})

\* a node made of two items: an assignment, or a Number that starts with
\* the "-" item (a number item never starts with "-")
TwoItems(n) ==
    \/ n.Type = "NodeAssign"
    \/ n.Type = "NodeNumber" /\ Len(n.Value) > 0 /\ n.Value[1] = "-"

\* the place in the line of the first item of the i-th built node; for
\* i = Len(ns) + 1 the place of the item the parser met after the last node
ItemOf(ns, i) == i + Cardinality({j \in 1..(i - 1) : TwoItems(ns[j])})

IsMinus(its, k) == k <= Len(its) /\ its[k].typ = "itemSub"
IsNumberItem(its, k) == k <= Len(its) /\ its[k].typ = "itemNumber"

\* the "-" before the i-th node place has a value on its left: it is the
\* Sub operator, and a number after it is a Number node of its own
MinusAfterValue(its, ns, i) ==
    /\ i <= Len(ns)
    /\ ns[i] = newOperator(<<"-">>)
    /\ IsNumberItem(its, ItemOf(ns, i) + 1) =>
          /\ i + 1 <= Len(ns)
          /\ ns[i + 1] = newNumber(its[ItemOf(ns, i) + 1].val,
                             parseNumberSystem(its[ItemOf(ns, i) + 1].val))

\* the "-" and the number after it are one Number node
MinusFused(its, ns, i) ==
    /\ i <= Len(ns)
    /\ ns[i].Type = "NodeNumber"
    /\ ns[i].Value = <<"-">> \o ToLower(its[ItemOf(ns, i) + 1].val)
    /\ ns[i].System = parseNumberSystem(its[ItemOf(ns, i) + 1].val)

Disambiguated(its, ns) ==
    /\ (IsMinus(its, 1) /\ IsNumberItem(its, 2)) => MinusFused(its, ns, 1)
    /\ \A i \in 2..(Len(ns) + 1) :
          IsMinus(its, ItemOf(ns, i)) =>
              /\ ns[i - 1].Type \in ValueNodes => MinusAfterValue(its, ns, i)
              /\ ( /\ ns[i - 1].Type \in OperatorNodes
                         \cup {"NodeLParen", "NodeSetOutput", "NodeAssign"}
                   /\ IsNumberItem(its, ItemOf(ns, i) + 1) )
                    => MinusFused(its, ns, i)

FromNumberItem(its, ns, i) ==
    \/ IsNumberItem(its, ItemOf(ns, i))
    \/ IsMinus(its, ItemOf(ns, i)) /\ IsNumberItem(its, ItemOf(ns, i) + 1)

\* C17: a "-" that is the first item of the line is fused into a Number node
\* only when the item after it is a number literal; followed by any other
\* item or by the end of the input it is a parse error; and no Number node is
\* built from an item that is not a number.
C17_LeadingMinus ==
    ParseReturned =>
        /\ (IsMinus(line, 1) /\ ~IsNumberItem(line, 2))
              => (err # NoErr /\ Built(nodes) = <<>>)
        /\ \A i \in 1..Len(Built(nodes)) :
              Built(nodes)[i].Type = "NodeNumber"
                 => FromNumberItem(line, Built(nodes), i)

\* C17 on the lines that do not start with "-": their Number nodes come
\* from number items
C17_ElsewhereFromNumbers ==
    (ParseReturned /\ ~IsMinus(line, 1)) =>
        \A i \in 1..Len(Built(nodes)) :
            Built(nodes)[i].Type = "NodeNumber"
               => FromNumberItem(line, Built(nodes), i)

\* C17 for a "-" alone on the line: it is rejected
C17_MinusAlone ==
    (ParseReturned /\ line = <<I_Sub>>) => err # NoErr

\* the places of the "=" items in the line
EqualsAt(its) == {k \in 1..Len(its) : its[k].typ = "itemEquals"}

\* the line is  $name = ...  with no other "="
IsAssignmentForm(its) ==
    /\ Len(its) >= 2
    /\ its[1].typ = "itemVariable"
    /\ EqualsAt(its) = {2}

\* C18: a line with an "=" is accepted only when the "=" is its second
\* item and its first item made a Variable node; the "=" then turns that
\* node into the Assign node of the same name and adds no node (the nodes
\* of an accepted assignment account for the items one for one); an "="
\* anywhere else is a parse error, so an accepted sequence has at most one
\* Assign node and only as its first node.
C18_Assignment ==
    ParseReturned =>
        /\ (err = NoErr /\ EqualsAt(line) # {})
              => IsAssignmentForm(line)
        /\ (IsAssignmentForm(line) /\ Len(Built(nodes)) > 0) =>
              /\ Built(nodes)[1] = newAssign(line[1].val)
              /\ err = NoErr =>
                    ItemOf(Built(nodes), Len(Built(nodes)) + 1)
                       = Len(line) + 1
        /\ err = NoErr =>
              \A i \in 1..Len(nodes) :
                  nodes[i].Type = "NodeAssign" => i = 1

\* C18 on the lines that do not start with "-"
C18_NoLeadingMinus ==
    ~IsMinus(line, 1) => C18_Assignment

\* the word clear, whatever item the lexer sends for it
IsClear(itm) == itm.val = <<"c","l","e","a","r">>

IsVerbLine(its) ==
    Len(its) > 0 /\ (IsClear(its[1]) \/ its[1].typ \in {"itemSave", "itemLoad"})

\* a line of save or load
IsDiskVerbLine(its) ==
    Len(its) > 0 /\ its[1].typ \in {"itemSave", "itemLoad"}

\* the items are exactly  clear ( )  or  save ( text )  or  load ( text )
IsCanonical(its) ==
    IF IsClear(its[1])
    THEN /\ Len(its) = 3
         /\ its[2].typ = "itemLParen"
         /\ its[3].typ = "itemRParen"
    ELSE /\ Len(its) = 4
         /\ its[2].typ = "itemLParen"
         /\ its[3].typ = "itemText"
         /\ its[4].typ = "itemRParen"

\* the node of the verb, with the profile name for save and load
VerbNode(its) ==
    IF IsClear(its[1]) THEN newClear
    ELSE newDiskOperation(its[1].val, its[3].val)

\* the error that names the form the verb requires
CanonicalFormError(its) ==
    IF IsClear(its[1])
    THEN Err("when used the input should be only: clear()", its[1].val)
    ELSE Err("when used the input should be only: (name)", its[1].val)

\* the lexer stopped at a character it does not know
LexerStopped(its) == \E k \in 1..Len(its) : its[k].typ = "itemError"
LexerError(its) ==
    Err("lexer", (CHOOSE i \in {its[k] : k \in 1..Len(its)} :
                      i.typ = "itemError").val)

VerbAccepted(its) ==
    /\ (err = NoErr) <=> IsCanonical(its)
    /\ IsCanonical(its) => nodes = <<VerbNode(its), newEOF>>

\* C19: a line whose first item is clear, save or load is accepted exactly
\* when its items are clear ( ), save ( text ) or load ( text ); its nodes
\* are then the verb's node, with the profile name, and the end marker; any
\* other line that starts with the verb is rejected with the error that
\* names the required form.
C19_VerbLines ==
    (ParseReturned /\ IsVerbLine(line)) =>
        /\ VerbAccepted(line)
        /\ ~IsCanonical(line)
              => err = CanonicalFormError(line)

\* the lines of save and load as the parser has them: when the lexer
\* stopped at an unknown character after the verb, the error is the
\* lexer's and does not name the form
C19_VerbLinesLexed ==
    (ParseReturned /\ IsDiskVerbLine(line)) =>
        /\ VerbAccepted(line)
        /\ ~IsCanonical(line) =>
              err = IF LexerStopped(line) THEN LexerError(line)
                    ELSE CanonicalFormError(line)

\* clear() is rejected: the lexer sends the word as a text item
C19_ClearRejected ==
    /\ ParseRejected
    /\ input.text = Text(<<I_Clear, I_LParen, I_RParen>>)
    /\ err = Err("unexpected", I_Clear.val)

\* save(foo) with text after it, rejected with the error that names
\* save(name)
C19_Witness ==
    /\ ParseRejected
    /\ Len(line) = 5
    /\ line[1] = I_Save
    /\ IsCanonical(SubSeq(line, 1, 4))
    /\ ~LexerStopped(line)
    /\ err = CanonicalFormError(line)

\* every item of the line went into a node: the parser met the end of the
\* input, not an item it refused
AllItemsBuilt(its, ns) == ItemOf(ns, Len(ns) + 1) = Len(its) + 1

\* the line ran out with the last node built not a value or ")": an
\* operator, an assignment, abs, a radix-setter or "("
EndsIncomplete(its, ns) ==
    /\ ~LexerStopped(its)
    /\ ~IsVerbLine(its)
    /\ Len(ns) > 0
    /\ AllItemsBuilt(its, ns)
    /\ Last(ns).Type \notin ValueNodes \cup {"NodeRParen"}

UnexpectedEnd ==
    {ErrorUnexpectedEOF,
     Err("unexpected end of input, there are unclosed parenthesis", <<>>)}

\* C20: when the input is exhausted and the last node built is not a Number,
\* Variable or RParen, Parse reports the unexpected-end-of-input error,
\* whatever the nodes before it are.
C20_UnexpectedEnd ==
    (ParseReturned /\ EndsIncomplete(line, Built(nodes)))
        => err \in UnexpectedEnd

\* C20 when the last node is not a "-" that follows ")"
C20_NotMinusAfterParen ==
    ( /\ ParseReturned
      /\ EndsIncomplete(line, Built(nodes))
      /\ ~( /\ Len(Built(nodes)) > 1
            /\ Last(Built(nodes)).Type = "NodeSub"
            /\ Built(nodes)[Len(Built(nodes)) - 1].Type = "NodeRParen" ) )
        => err \in UnexpectedEnd

(***************************************************************************)
(* Properties of clear, save and load, stated on the profile session.      *)
(***************************************************************************)
ClearLine == <<I_Clear, I_LParen, I_RParen>>

\* the step in which the line of the words its is parsed and, when
\* accepted, executed
LineStep(its) ==
    pc = "prompt" /\ pc' # "prompt" /\ Words(input'.items) = its

\* C21: Exec of clear() returns the message "Cleared state" and no error,
\* leaves the store empty whatever it held (so also when it was empty
\* already), leaves every saved profile as it was and does not call OnSave.
C21_Clear ==
    [][LineStep(ClearLine) =>
          /\ pc' = "returned"
          /\ result' = Text_Cleared
          /\ err' = NoErr
          /\ Variables' = EmptyStore
          /\ disk' = disk
          /\ onSave' = 0]_vars

\* clear() with a variable set: the parser rejects the line, Exec is not
\* called and the store is as it was
C21_ClearRejected ==
    /\ pc = "rejected"
    /\ line = ClearLine
    /\ err = Err("unexpected", I_Clear.val)
    /\ Variables # EmptyStore

\* the line is save ( name )
IsSaveLine(its) ==
    /\ Len(its) = 4
    /\ its[1].typ = "itemSave"
    /\ its[2].typ = "itemLParen"
    /\ its[3].typ = "itemText"
    /\ its[4].typ = "itemRParen"

\* save wrote the whole store to the profile and then called OnSave once
SaveWrote(profile) ==
    /\ disk' = Put(disk, profile, Variables)
    /\ onSave' = 1
    /\ result' = Text_Saved \o profile

\* the write failed: nothing is written and OnSave is not called
SaveFailed ==
    /\ disk' = disk
    /\ onSave' = 0
    /\ result' = Text_IOError

\* C22: Exec of save(name) writes the whole current store to the profile and
\* calls OnSave exactly once, after the write succeeded; it does not call
\* OnSave when the write fails; it leaves the store in memory unchanged; and
\* no other line (load, clear, an expression, a rejected line) calls OnSave.
C22_Save ==
    [][\A its \in {Words(ln.items) : ln \in DiskInputs} :
          LineStep(its) =>
              IF IsSaveLine(its)
              THEN /\ pc' = "returned"
                   /\ err' = NoErr
                   /\ Variables' = Variables
                   /\ SaveWrote(its[3].val) \/ SaveFailed
              ELSE onSave' = 0]_vars

\* save(name) has returned after it wrote a store that holds variables
C22_Witness ==
    /\ Returned
    /\ IsSaveLine(line)
    /\ onSave = 1
    /\ Variables # EmptyStore
    /\ line[3].val \in DOMAIN disk
    /\ disk[line[3].val] = Variables

\* save(name) has returned after the write failed
C22_WitnessFailed ==
    /\ Returned
    /\ IsSaveLine(line)
    /\ onSave = 0
    /\ result = Text_IOError


(***************************************************************************)
(* The item stream of the lexer.                                           *)
(***************************************************************************)
Terminating(i) == i.typ \in {"itemEOF", "itemError"}

\* the lexer has nothing more to send: its terminating item has been taken
TerminatorTaken ==
    /\ lexer.fn = "nil"
    /\ lexer.sent = Len(lexer.l.out)
    /\ pending = <<>>

C23_StreamInv ==
    LET out == lexer.l.out IN
    /\ \A i \in 1..(Len(out) - 1) : ~Terminating(out[i])
    /\ lexer.fn \in {"nil", "errorfEnd"}
          <=> (out # <<>> /\ Terminating(Last(out)))
    /\ lexer.fn = "errorfEnd" => Last(out).typ = "itemError"
    /\ lexer.st = "closed" => TerminatorTaken
    /\ (lexer.st = "running" /\ TerminatorTaken) => ENABLED LexClose
    /\ lexer.fn # "nil" => Head(lexer.ahead) = state(lexer.l, lexer.fn)
    /\ \A i \in 1..Len(out) :
          out[i].typ = "itemError" =>
             \E k \in 1..Len(input) : out[i].val = Unexpected(input[k])
    /\ (input = <<"<">> /\ out # <<>>) =>
          out = <<[typ |-> "itemError", pos |-> 0, val |-> Unexpected("<")]>>

\* C23: the items of the lexer end with exactly one terminating item, the
\* end-of-input item or an error item, no item follows it, and once it has
\* been taken the next step of the lexer closes the channel; a character
\* that starts no token (a lone "<") gives the error item
\* "Unexpected <char>" and the scanning stops there.
C23_Stream == lexer.st # "idle" => C23_StreamInv

C23_Witness ==
    /\ input = <<"<">>
    /\ lexer.st = "closed"
    /\ consumer.received =
          <<[typ |-> "itemError", pos |-> 0, val |-> Unexpected("<")]>>


\* the items the lexer has handed to the channel so far
Handed == SubSeq(lexer.l.out, 1, lexer.sent)

\* C24: the lexer and the receiver run side by side over a handoff of one
\* item: the lexer hands over item n+1 only after item n was taken, at most
\* one item is pending, and the items are received in the order they were
\* sent, none lost and none twice, under every interleaving.
C24_Handoff ==
    lexer.st # "idle" =>
       /\ Len(pending) <= 1
       /\ lexer.sent = Len(consumer.received) + Len(pending)
       /\ Handed = consumer.received \o pending
       /\ lexer.st = "blocked" <=> pending # <<>>
       /\ (consumer.received # <<>> /\ lexer.st # "closed") =>
             (consumer.st = "receiving"
                 <=> Receiving(consumer.kind, consumer.received))
       /\ (consumer.kind = "TestLex" /\ consumer.st = "returned") =>
             consumer.received = Lex(input)

C24_Witness ==
    /\ consumer.kind = "Parse"
    /\ Len(consumer.received) >= 2
    /\ lexer.st = "blocked"
    /\ pending = <<lexer.l.out[3]>>


\* C25: in every call of Parse, also one that ends with a grammar error,
\* the lexer eventually sends its end-of-input or error item and finishes,
\* closing the channel: the parser takes every item, so that no lexer stays
\* blocked in a send forever.
C25_LexerFinishes ==
    (consumer.kind = "Parse") ~> (lexer.st = "closed")

\* the parser has returned and the lexer waits in a send nobody will take
LexerLeftBlocked ==
    /\ consumer.kind = "Parse"
    /\ consumer.st = "returned"
    /\ lexer.st = "blocked"




(***************************************************************************)
(* The tokens of the lexer.  AtLexBase: run is about to call lexBase;      *)
(* Scan is the lexer after the whitespace at that point, and Skip the      *)
(* step lexBase makes for its whitespace item, if it sends one.            *)
(***************************************************************************)
AtLexBase ==
    /\ lexer.st = "running"
    /\ lexer.fn = "lexBase"
    /\ lexer.sent = Len(lexer.l.out)

Scan == acceptRun(lexer.l, whitespaceChars)

Skip == IF Scan.pos > Scan.start THEN 1 ELSE 0

\* the tokens of two characters and the tokens their first character makes
DoubleTokens ==
    { [key |-> <<"*", "*">>, typ |-> "itemExp",    single |-> "itemMult"],
      [key |-> <<"/", "/">>, typ |-> "itemFdiv",   single |-> "itemDiv"],
      [key |-> <<"<", "<">>, typ |-> "itemLShift", single |-> "itemError"],
      [key |-> <<">", ">">>, typ |-> "itemRShift", single |-> "itemError"] }

\* lexBase and the state function it returns send exactly the item i next
\* (after the whitespace item, if any), and go on behind its text
SendsToken(i) ==
    /\ Len(lexer.ahead) >= 2 + Skip
    /\ lexer.ahead[2 + Skip].l.out = Append(lexer.ahead[1 + Skip].l.out, i)
    /\ lexer.ahead[2 + Skip].l.pos = i.pos + Len(i.val)
    /\ lexer.ahead[2 + Skip].state = "lexBase"

\* lexBase sends the error item for the character c and stops
SendsError(c) ==
    /\ lexer.ahead[1 + Skip].state = "errorfEnd"
    /\ Last(lexer.ahead[1 + Skip].l.out).typ = "itemError"
    /\ Last(lexer.ahead[1 + Skip].l.out).val = Unexpected(c)
    /\ lexer.ahead[2 + Skip].state = "nil"

\* at every call of lexBase the lexer takes the longest fixed-text token
\* at the scanning position: "**", "//", "<<" and ">>" give one item each, a
\* single "*" or "/" gives Mult or Div, a single "<" or ">" the error item
LongestTokenScanned ==
    AtLexBase =>
       \A d \in DoubleTokens :
          /\ HasPrefix(Scan, d.key) =>
                SendsToken([typ |-> d.typ, pos |-> Scan.pos,
                            val |-> d.key])
          /\ (HasPrefix(Scan, <<d.key[1]>>) /\ ~HasPrefix(Scan, d.key)) =>
                IF d.single = "itemError" THEN SendsError(d.key[1])
                ELSE SendsToken([typ |-> d.single, pos |-> Scan.pos,
                                 val |-> <<d.key[1]>>])

\* no "**" or "//" is sent as two items of one character
NeverTwoSingles ==
    \A i \in 1..(Len(lexer.l.out) - 1) :
       (/\ lexer.l.out[i].typ \in {"itemMult", "itemDiv"}
        /\ lexer.l.out[i + 1].typ = lexer.l.out[i].typ)
          => lexer.l.out[i + 1].pos > lexer.l.out[i].pos + 1

\* the lexer has sent its whole stream
Lexed == lexer.st # "idle" /\ lexer.fn = "nil"

\* where the maximal runs of the character c start in the text, counted
\* from 1, and how long the run at p is
RunStarts(text, c) ==
    {p \in 1..Len(text) : text[p] = c /\ (p = 1 \/ text[p - 1] # c)}

RunLen(text, p) ==
    CHOOSE n \in 1..(Len(text) - p + 1) :
        /\ \A j \in 0..(n - 1) : text[p + j] = text[p]
        /\ p + n > Len(text) \/ text[p + n] # text[p]

\* the text before position p has no lexical error: lexed alone it ends
\* with the end-of-input item
LexesUpTo(text, p) ==
    Last(Lex(SubSeq(text, 1, p - 1))).typ = "itemEOF"

HasItem(out, i) == \E k \in 1..Len(out) : out[k] = i

\* the items of a run of n characters d.key[1] at position at (from 0):
\* the token of two characters as often as it fits, then the single one
TokensOfRun(out, d, at, n) ==
    /\ \A j \in 0..((n \div 2) - 1) :
          HasItem(out, [typ |-> d.typ, pos |-> at + 2 * j, val |-> d.key])
    /\ n % 2 = 1 =>
          IF d.single = "itemError"
          THEN Last(out) = [typ |-> "itemError", pos |-> at + n - 1,
                            val |-> Unexpected(d.key[1])]
          ELSE HasItem(out, [typ |-> d.single, pos |-> at + n - 1,
                             val |-> <<d.key[1]>>])

LongestTokenInText(text, out) ==
    \A d \in DoubleTokens :
       \A p \in RunStarts(text, d.key[1]) :
          LexesUpTo(text, p) => TokensOfRun(out, d, p - 1, RunLen(text, p))

\* C26: at each position of the text the lexer takes the longest fixed-text
\* token: "**", "//", "<<" and ">>" are sent as one item each and never as
\* two items of one character, a single "*" or "/" is sent as Mult or Div,
\* and a single "<" or ">" is no token and gives the error item.  A
\* position counts when the text before it has no lexical error.
C26_LongestToken ==
    /\ Lexed => LongestTokenInText(input, lexer.l.out)
    /\ NeverTwoSingles

\* C26 for the texts without the letter b
C26_LongestTokenPlain ==
    (\A k \in 1..Len(input) : input[k] # "b") => C26_LongestToken

\* C26 at the positions where lexBase looks at the table
C26_LongestTokenScanned == LongestTokenScanned /\ NeverTwoSingles

\* b*2: the "*" behind the b is sent as the error item
C26_StarBehindB ==
    /\ input = <<"b", "*", "2">>
    /\ Lexed
    /\ lexer.l.out = <<[typ |-> "itemError", pos |-> 0,
                        val |-> Unexpected("*")]>>

\* "***<": Exp, Mult and the error item for "<"
C26_Witness ==
    /\ input = <<"*", "*", "*", "<">>
    /\ lexer.st = "closed"
    /\ consumer.received =
          << [typ |-> "itemExp", pos |-> 0, val |-> <<"*", "*">>],
             [typ |-> "itemMult", pos |-> 2, val |-> <<"*">>],
             [typ |-> "itemError", pos |-> 3, val |-> Unexpected("<")] >>


\* the ends of the maximal runs of whitespace of the text, counted from 1
RunEnds(text) ==
    {k \in 1..Len(text) :
        /\ text[k] \in whitespaceChars
        /\ k = Len(text) \/ text[k + 1] \notin whitespaceChars}

SpaceItems(out) == {i \in 1..Len(out) : out[i].typ = "itemSpace"}

\* C27: every maximal run of whitespace of the input gives exactly one
\* whitespace item, with the text " ", and a whitespace item is sent only
\* where the input has whitespace.
C27_Whitespace ==
    Lexed =>
       LET out == lexer.l.out IN
       /\ \A i \in SpaceItems(out) :
             /\ out[i].val = <<" ">>
             /\ out[i].pos \in RunEnds(input)
       /\ \A i, j \in SpaceItems(out) : out[i].pos = out[j].pos => i = j
       /\ Last(out).typ = "itemEOF" =>
             \A k \in RunEnds(input) :
                \E i \in SpaceItems(out) : out[i].pos = k

\* the texts without the digit 0 and the letter b
PlainText == \A k \in 1..Len(input) : input[k] \notin {"0", "b"}

C27_WhitespacePlain == PlainText => C27_Whitespace


(***************************************************************************)
(* The number literals.  Rest is the input from the scanning position on.  *)
(***************************************************************************)
Rest == SubSeq(lexer.l.input, Scan.pos + 1, Len(lexer.l.input))

\* the text has a literal of n characters at its start that ends there:
\* no longer literal starts the text, and what follows is not a character
\* of a number
LiteralAhead(t, n) ==
    /\ IsLiteral(SubSeq(t, 1, n))
    /\ \A m \in (n + 1)..Len(t) : ~IsLiteral(SubSeq(t, 1, m))
    /\ n < Len(t) =>
          t[n + 1] \notin Chars(digits) \cup hexadecimal \cup {".", "x", "X"}

\* C28: every number literal of the input, binary ("b" and binary digits),
\* hex ("0x" or "0X" and hex digits) or decimal (digits with at most one
\* decimal point, the literal "0", fractions like "0.1" and the octal forms
\* with a leading zero among them), is sent as exactly one number item whose
\* text is the whole literal.
C28_NumberLiteral ==
    AtLexBase =>
       \A n \in 1..Len(Rest) :
          LiteralAhead(Rest, n) =>
             SendsToken([typ |-> "itemNumber", pos |-> Scan.pos,
                         val |-> SubSeq(Rest, 1, n)])

\* the literals with a digit other than 0 at their start, and those with
\* a second digit
C28_NumberLiteralPlain ==
    AtLexBase =>
       \A n \in 1..Len(Rest) :
          (/\ LiteralAhead(Rest, n)
           /\ \/ Rest[1] # "0"
              \/ n >= 2 /\ Rest[2] # ".")
             => SendsToken([typ |-> "itemNumber", pos |-> Scan.pos,
                            val |-> SubSeq(Rest, 1, n)])


(***************************************************************************)
(* peek.  ParserAt(its, k, par) is the parser that has read the first k    *)
(* items of the line its, with par parentheses open.                       *)
(***************************************************************************)
\* the parser has taken the first k items of the channel and buffered the
\* words among them
ParserAt(its, k, par) ==
    [items |-> Words(SubSeq(its, 1, k)),
     pos |-> Len(Words(SubSeq(its, 1, k))),
     parenthesis |-> par,
     chan |-> SubSeq(its, k + 1, Len(its))]

\* the positions the parser can be at: at the start, or behind an item it
\* keeps
Positions(its) ==
    {k \in 0..Len(its) :
        /\ \A j \in 1..k : its[j].typ \notin {"itemEOF", "itemError"}
        /\ k > 0 => its[k].typ # "itemSpace"}

\* peek returned r from the state p and the nextItem after it returned n
PeekKept(p, r, n) ==
    /\ n.itm = r.itm
    /\ n.err = r.err
    /\ r.p.pos = p.pos
    /\ r.p.parenthesis = p.parenthesis
    /\ r.p.items \in {p.items, Append(p.items, r.itm)}

PeekKeeps(p) == PeekKept(p, peek(p), nextItem(peek(p).p))

\* an item the parser keeps is ahead of position k
ItemAhead(its, k) ==
    \E j \in (k + 1)..Len(its) :
       /\ its[j].typ \notin {"itemSpace", "itemError", "itemEOF"}
       /\ \A i \in (k + 1)..(j - 1) : its[i].typ = "itemSpace"

\* C29: peek never loses the item ahead: at every position of the stream,
\* also when the item ahead is the end-of-input item, the nextItem after a
\* peek returns what the peek returned, the same item or the same
\* end-of-input or error result, and peek changes the parser only by the
\* buffered item.
C29_PeekKeeps ==
    ParseReturned =>
       \A k \in Positions(input.items), par \in {0, 1} :
          PeekKeeps(ParserAt(input.items, k, par))

C29_PeekKeepsItem ==
    ParseReturned =>
       \A k \in Positions(input.items), par \in {0, 1} :
          ItemAhead(input.items, k) => PeekKeeps(ParserAt(input.items, k, par))


\* C30: for every node sequence Parse accepts, pemdas never comes to its
\* branch for an inconsistent node list, the one that prints "Unexpected end
\* of pemdas" and returns the text ERROR: when no parenthesis and no
\* operator is left, one value node and the end marker remain.
C30_NoUnexpectedEnd == Returned => result # ErrorText

HasAbs(its) == \E i \in 1..Len(its) : its[i].typ = "itemAbs"

C30_NoUnexpectedEndPlain == (Returned /\ ~HasAbs(line)) => result # ErrorText


\* the persistence primitive of the save or load of this line failed: the
\* text Exec returned is the error text of the file system
PersistenceFailed ==
    /\ Returned
    /\ IsDiskLine(line)
    /\ result = Text_IOError

\* C31: when the persistence primitive fails during save(name) or
\* load(name), the profile missing, unreadable or unwritable, Exec reports
\* the failure as a non-nil error and not as a successful result text.
C31_FailureIsError == PersistenceFailed => err # NoErr


\* in the node sequence ns every node of the types ts has an opening
\* parenthesis right behind it
ParenBehind(ns, ts) ==
    \A i \in 1..Len(ns) :
       ns[i].Type \in ts =>
          i < Len(ns) /\ ns[i + 1].Type = "NodeLParen"

\* C32: the function forms match their syntax exactly: in every accepted
\* node sequence a radix-setter node (dec, bin, hex, oct) and an abs node
\* are each followed at once by an opening parenthesis, so that "dec 5" and
\* "hex $a" are parse errors.
C32_FunctionForms ==
    ParseAccepted => ParenBehind(nodes, {"NodeSetOutput", "NodeAbs"})

C32_AbsForm == ParseAccepted => ParenBehind(nodes, {"NodeAbs"})


(***************************************************************************)
(* The number system of a literal.                                         *)
(***************************************************************************)
StartsWith(t, cs) == Len(t) >= 1 /\ t[1] \in cs

Contains(t, c) == \E k \in 1..Len(t) : t[k] = c

\* the number system by the prefix of the text: hex, binary, octal, and
\* decimal for all the rest
SystemByPrefix(t) ==
    IF StartsWith(t, {"0"}) /\ Len(t) >= 2 /\ t[2] \in {"x", "X"} THEN Hex
    ELSE IF StartsWith(t, {"b", "B"}) THEN Bin
    ELSE IF /\ StartsWith(t, {"0"})
            /\ Len(t) > 1
            /\ ~Contains(t, ".")
            /\ ~Contains(t, "x")
        THEN Oct
    ELSE Dec

NumberTexts(out) == {out[i].val : i \in {j \in 1..Len(out) :
                                          out[j].typ = "itemNumber"}}

\* C33: parseNumberSystem tells the number system of every non-empty
\* literal text by its prefix: hex for 0x and 0X, binary for b and B, octal
\* for a text of more than one character that starts with 0 and has no "."
\* and no "x", and decimal for everything else, the text 0 and every text
\* with a decimal point among it.
C33_NumberSystem ==
    \A t \in NumberTexts(lexer.l.out) :
       parseNumberSystem(t) = SystemByPrefix(t)

\* the same for the texts in which a "." comes right behind the first
\* character or not at all
C33_NumberSystemPlain ==
    \A t \in NumberTexts(lexer.l.out) :
       (\A k \in 3..Len(t) : t[k] # ".") =>
          parseNumberSystem(t) = SystemByPrefix(t)


(***************************************************************************)
(* An operand in parentheses.                                              *)
(***************************************************************************)
\* the number literals of the line that stand alone as operands (not the
\* digits of a negative literal)
LiteralOperands(its) ==
    {i \in 1..Len(its) :
        /\ its[i].typ = "itemNumber"
        /\ i = 1 \/ its[i - 1].typ # "itemSub"}

\* the line with its i-th item in parentheses
Wrap(its, i) ==
    SubSeq(its, 1, i - 1) \o <<I_LParen, its[i], I_RParen>>
        \o SubSeq(its, i + 1, Len(its))

\* Parse returned pr for a line: the line gives what the last line gave
SameOutcomeOfParse(pr) ==
    /\ pr.st = "ok"
    /\ pr.err = NoErr
    /\ SameOutcome(Exec(before, disk, pr.nodes, updateVariables, arch, TRUE))

\* C34: parentheses around an operand do not change the value: for every
\* number literal x, decimal, hex, octal or binary, that is an operand of an
\* accepted expression, the expression with (x) in place of x gives the
\* same result and the same error from Exec.
C34_ParenthesisedOperand ==
    (Returned /\ ~IsDiskLine(line)) =>
        \A i \in LiteralOperands(line) :
            SameOutcomeOfParse(Parse(Channel(Text(Wrap(line, i)))))

\* the same for the decimal literals without a leading zero, in lines
\* without "**"
IsPlainDecimal(itm) ==
    /\ itm.val[1] \in Chars(digits) \ {"0"}
    /\ \A k \in 1..Len(itm.val) : itm.val[k] \in Chars(digits)

C34_ParenthesisedDecimal ==
    (/\ Returned
     /\ ~IsDiskLine(line)
     /\ \A k \in 1..Len(line) : line[k].typ # "itemExp") =>
        \A i \in LiteralOperands(line) :
            IsPlainDecimal(line[i]) =>
                SameOutcomeOfParse(Parse(Channel(Text(Wrap(line, i)))))


\* the Number nodes of the sequence ns
NumberNodes(ns) == {ns[i] : i \in {j \in 1..Len(ns) : ns[j].Type = "NodeNumber"}}

\* C35: every Number node of a sequence Parse accepted, the negative
\* numbers made of "-" and a hex, octal or binary literal among them, has a
\* radix tag under which its text converts to a number without error.
C35_NumbersConvert ==
    Accepted => \A n \in NumberNodes(nodes) : toFloat64(n).r.ok

\* the same for the nodes made of a number literal that are not a negative
\* binary number, the octal digits being octal
C35_NumbersConvertPlain ==
    Accepted =>
       \A n \in NumberNodes(nodes) :
          (/\ \A k \in 1..Len(n.Value) :
                 n.Value[k] \in Chars(digits) \cup hexadecimal
                                  \cup {"-", ".", "x"}
           /\ ~(n.System = Bin /\ n.Value[1] = "-")
           /\ ~(n.System = Oct /\ Contains(n.Value, "8")))
             => toFloat64(n).r.ok


\* a value of the store is a Number node whose text is a number under its
\* radix tag
WellFormedValue(n) ==
    /\ n.Type = "NodeNumber"
    /\ n.Value # ToLower(ErrorText)
    /\ ~Contains(n.Value, "$")
    /\ toFloat64(n).r.ok

\* C36: after any sequence of lines parsed and executed in commit mode every
\* value of the variable store is a Number node whose text is a well-formed
\* number literal that converts under its radix tag: the store never holds
\* a variable name, the text ERROR or a literal whose tag does not fit.
C36_StoreWellFormed ==
    \A x \in DOMAIN Variables : WellFormedValue(Variables[x])

\* the same for the value an assignment has just stored whose right side
\* has no abs, no minus sign and no variable
C36_StoredPlain ==
    (/\ Returned
     /\ err = NoErr
     /\ updateVariables
     /\ IsAssignLine(line)
     /\ \A k \in 2..Len(line) :
           line[k].typ \notin {"itemAbs", "itemSub", "itemVariable"})
       => /\ line[1].val \in DOMAIN Variables
          /\ WellFormedValue(Variables[line[1].val])


(***************************************************************************)
(* The characters of the input and the items that hold them.               *)
(***************************************************************************)
\* the items of the stream that hold text of the input
TextItems(out) ==
    {i \in 1..Len(out) : out[i].typ \notin {"itemSpace", "itemEOF", "itemError"}}

\* the item i holds the k-th character of the input
Holds(out, i, k) == out[i].pos < k /\ k <= out[i].pos + Len(out[i].val)

\* where the terminating item stands: the characters before it are those
\* up to ScannedEnd
ScannedEnd(out) ==
    IF Last(out).typ = "itemError" THEN Last(out).pos ELSE Len(input)

\* C37: lexing loses no input: every character of the input that is not
\* whitespace and comes before the terminating item is in the text of
\* exactly one item, the texts of the items are in the order of the input,
\* and the end-of-input item has the empty text: no character is swallowed
\* into it or dropped.
C37_NoInputLost ==
    Lexed =>
       LET out == lexer.l.out IN
       /\ \A i \in TextItems(out) :
             /\ out[i].val # <<>>
             /\ out[i].pos + Len(out[i].val) <= Len(input)
             /\ out[i].val = SubSeq(input, out[i].pos + 1,
                                    out[i].pos + Len(out[i].val))
       /\ \A i, j \in TextItems(out) :
             i < j => out[i].pos + Len(out[i].val) <= out[j].pos
       /\ \A k \in 1..ScannedEnd(out) :
             input[k] \notin whitespaceChars =>
                \E i \in TextItems(out) : Holds(out, i, k)
       /\ Last(out).typ = "itemEOF" => Last(out).val = <<>>

C37_NoInputLostPlain == PlainText => C37_NoInputLost

C37_EndWithText ==
    /\ Lexed
    /\ input = <<"1", "b">>
    /\ Last(lexer.l.out) = [typ |-> "itemEOF", pos |-> 1, val |-> <<"b">>]


(***************************************************************************)
(* The variable items of the stream.                                       *)
(***************************************************************************)
VariableItems(out) == {i \in 1..Len(out) : out[i].typ = "itemVariable"}

\* the text is the sigil and then only letters and underscores
SigilAndName(val) ==
    /\ Len(val) >= 1
    /\ val[1] = "$"
    /\ \A k \in 2..Len(val) : val[k] \in letters \cup {"_"}

\* C38: every variable item the lexer emits is the $ sigil followed by at
\* least one letter or underscore: a $ that no letter or underscore follows
\* is never emitted as a variable item, so no variable has the empty name.
C38_VariableHasName ==
    \A i \in VariableItems(lexer.l.out) :
       /\ SigilAndName(lexer.l.out[i].val)
       /\ Len(lexer.l.out[i].val) >= 2

\* what the lexer does keep: a variable item is the sigil and then letters
\* and underscores, none or more
C38_VariableSigil ==
    \A i \in VariableItems(lexer.l.out) : SigilAndName(lexer.l.out[i].val)

C38_BareSigil ==
    /\ Lexed
    /\ input = <<"$">>
    /\ lexer.l.out[1] = [typ |-> "itemVariable", pos |-> 0, val |-> <<"$">>]

=============================================================================
